---- MODULE Spec2Model ----
(***************************************************************************)
(* Model of the university-ranking extraction pipeline:                    *)
(*   scripts/usnews_direct_extractor.py  (USNewsPolishedExtractor)         *)
(*   scripts/parse_usnews_text_to_csv.py (parse_usnews_text)               *)
(*                                                                         *)
(* Text is modelled as a sequence of one-character strings, so that        *)
(* strip(), lower(), startswith(), substring tests and the regular         *)
(* expressions of the source are computed character by character.  The     *)
(* character "a~" stands for the letter a-tilde of 'sao paulo'.            *)
(***************************************************************************)
EXTENDS Integers, Sequences, FiniteSets, TLC

VARIABLES
    \* _clean_and_standardize_data
    v_in, v_out, v_pc,
    \* _extract_via_university_links
    l_links, l_out, l_pc,
    \* extract_university_data (strategy chain)
    page, max_entries, strat_idx, universities, ran, retained_from,
    validated, returned, c_pc,
    \* parse_usnews_text (sequential line scan)
    lines, max_rank, i, parsed, rank_count, scan_log, csv_written, s_pc,
    \* location canonicalizer
    loc_in, loc_out, loc_pc,
    \* extract_rankings (complete workflow)
    w_page, w_target, w_loaded, w_universities, w_log, w_result, w_pc,
    \* _scroll_and_load_content (load loop)
    ld_target, ld_wait, ld_elapsed, ld_last, ld_same, ld_current, ld_exit,
    ld_returned, ld_prev, ld_run, ld_pc

validatorVars == <<v_in, v_out, v_pc>>
linkVars == <<l_links, l_out, l_pc>>
chainVars == <<page, max_entries, strat_idx, universities, ran, retained_from,
               validated, returned, c_pc>>
scanVars == <<lines, max_rank, i, parsed, rank_count, scan_log, csv_written, s_pc>>
canonVars == <<loc_in, loc_out, loc_pc>>
workflowVars == <<w_page, w_target, w_loaded, w_universities, w_log, w_result,
                  w_pc>>

loadVars == <<ld_target, ld_wait, ld_elapsed, ld_last, ld_same, ld_current,
              ld_exit, ld_returned, ld_prev, ld_run, ld_pc>>

vars == <<validatorVars, linkVars, chainVars, scanVars, canonVars,
          workflowVars, loadVars>>

-----------------------------------------------------------------------------
(* Bounds of the model *)

\* longest candidate list handed to the validator
MaxCands == 3

\* most anchors on a page handed to the link strategy alone
MaxLinks == 3

\* most candidates a strategy yields in the chain, most anchors on its page
MaxYield == 2

\* largest target cardinality (max_entries) of the chain
MaxTarget == 3

\* longest free-form text given to the line scan, in lines
MaxLines == 4

\* largest max_rank given to the line scan
MaxRankParam == 2

\* longest text given to the line scan when its termination is checked
MaxLiveLines == 3

\* largest number of entries the page load reports to the workflow
MaxLoaded == 1

\* largest number of entries counted on the page during the load loop
MaxCount == 2

\* largest max_wait_time of the load loop, in clock ticks
MaxWait == 7

\* longest iteration of the load loop, in clock ticks
MaxIterTicks == 2

-----------------------------------------------------------------------------
(* Characters and strings *)

NA == <<"N","/","A">>

IsSpace(c) == c = " "

IsDigit(c) == c \in {"0","1","2","3","4","5","6","7","8","9"}

IsUpper(c) ==
    c \in {"A","B","C","D","E","F","G","H","I","J","K","L","M",
           "N","O","P","Q","R","S","T","U","V","W","X","Y","Z","A~"}

IsLowerCh(c) ==
    c \in {"a","b","c","d","e","f","g","h","i","j","k","l","m",
           "n","o","p","q","r","s","t","u","v","w","x","y","z","a~"}

IsAlpha(c) == IsUpper(c) \/ IsLowerCh(c)

\* [A-Za-z]
IsAsciiAlpha(c) == IsAlpha(c) /\ c \notin {"a~", "A~"}

\* \w of Python's re on str
IsWordChar(c) == IsAlpha(c) \/ IsDigit(c) \/ c = "_"

\* str.lower() on one character
LowerChar(c) ==
    CASE c = "A" -> "a" [] c = "B" -> "b" [] c = "C" -> "c" [] c = "D" -> "d"
      [] c = "E" -> "e" [] c = "F" -> "f" [] c = "G" -> "g" [] c = "H" -> "h"
      [] c = "I" -> "i" [] c = "J" -> "j" [] c = "K" -> "k" [] c = "L" -> "l"
      [] c = "M" -> "m" [] c = "N" -> "n" [] c = "O" -> "o" [] c = "P" -> "p"
      [] c = "Q" -> "q" [] c = "R" -> "r" [] c = "S" -> "s" [] c = "T" -> "t"
      [] c = "U" -> "u" [] c = "V" -> "v" [] c = "W" -> "w" [] c = "X" -> "x"
      [] c = "Y" -> "y" [] c = "Z" -> "z" [] c = "A~" -> "a~" [] OTHER -> c

\* str.upper() on one character
UpperChar(c) ==
    CASE c = "a" -> "A" [] c = "b" -> "B" [] c = "c" -> "C" [] c = "d" -> "D"
      [] c = "e" -> "E" [] c = "f" -> "F" [] c = "g" -> "G" [] c = "h" -> "H"
      [] c = "i" -> "I" [] c = "j" -> "J" [] c = "k" -> "K" [] c = "l" -> "L"
      [] c = "m" -> "M" [] c = "n" -> "N" [] c = "o" -> "O" [] c = "p" -> "P"
      [] c = "q" -> "Q" [] c = "r" -> "R" [] c = "s" -> "S" [] c = "t" -> "T"
      [] c = "u" -> "U" [] c = "v" -> "V" [] c = "w" -> "W" [] c = "x" -> "X"
      [] c = "y" -> "Y" [] c = "z" -> "Z" [] c = "a~" -> "A~" [] OTHER -> c

\* str.lower()
Lower(s) == [k \in 1..Len(s) |-> LowerChar(s[k])]

\* s[a-1:b] of Python, 1-based and inclusive here
Slice(s, a, b) == IF a > b THEN << >> ELSE SubSeq(s, a, b)

\* str.strip()
Strip(s) ==
    LET idx == {k \in 1..Len(s) : ~IsSpace(s[k])}
    IN  IF idx = {} THEN << >>
        ELSE LET lo == CHOOSE k \in idx : \A m \in idx : k <= m
                 hi == CHOOSE k \in idx : \A m \in idx : k >= m
             IN  SubSeq(s, lo, hi)

\* the pattern p occurs in s at position k
MatchAt(s, p, k) ==
    /\ k >= 1
    /\ k + Len(p) - 1 <= Len(s)
    /\ \A m \in 1..Len(p) : s[k + m - 1] = p[m]

\* str.startswith(p)
StartsWith(s, p) == MatchAt(s, p, 1)

\* p in s
Contains(s, p) == \E k \in 1..(Len(s) + 1) : MatchAt(s, p, k)

\* int() of a string of decimal digits
RECURSIVE DigitsToInt(_)
DigitsToInt(d) ==
    IF d = << >> THEN 0
    ELSE LET c == d[Len(d)]
             v == CASE c = "0" -> 0 [] c = "1" -> 1 [] c = "2" -> 2
                    [] c = "3" -> 3 [] c = "4" -> 4 [] c = "5" -> 5
                    [] c = "6" -> 6 [] c = "7" -> 7 [] c = "8" -> 8
                    [] c = "9" -> 9
         IN  10 * DigitsToInt(SubSeq(d, 1, Len(d) - 1)) + v

\* the range of a sequence
Range(s) == {s[k] : k \in 1..Len(s)}

\* all sequences over S of length at most n
SeqsUpTo(S, n) == UNION {[1..k -> S] : k \in 0..n}

-----------------------------------------------------------------------------
(* Validator / deduplicator / sorter: _clean_and_standardize_data *)

\* upper bound on an accepted rank
MaxRankAccepted == 2000

\* names the validator never accepts
ReservedNames ==
    {<<"r","e","a","d"," ","m","o","r","e">>, <<"v","i","e","w"," ","m","o","r","e">>, <<"d","e","t","a","i","l","s">>, <<"u","n","k","n","o","w","n"," ","u","n","i","v","e","r","s","i","t","y">>}

\* int(uni['Rank']) raises ValueError or TypeError
IntRaises(raw) == ~raw.ok

NameInvalidNoSeen(name, seen_names) ==
    \/ name = << >>
    \/ Len(name) < 3
    \/ Lower(name) \in ReservedNames

\* the skip condition on the name
NameInvalid(name, seen_names) ==
    \/ name = << >>
    \/ Len(name) < 3
    \/ Lower(name) \in ReservedNames
    \/ name \in seen_names

RankRejectedOffByOne(rank) == rank <= 0 \/ rank > MaxRankAccepted + 1

\* the skip condition on the rank
RankRejected(rank) == rank <= 0 \/ rank > MaxRankAccepted

\* uni.get('Country', 'N/A').strip() or 'N/A', then the length test
StandardCountry(raw) ==
    LET country == IF Strip(raw) = << >> THEN NA ELSE Strip(raw)
    IN  IF country = NA \/ Len(country) < 2 THEN NA ELSE country

RECURSIVE CleanLoopSeenAfterRank(_, _, _, _)
CleanLoopSeenAfterRank(unis, k, cleaned, seen_names) ==
    IF k > Len(unis) THEN cleaned
    ELSE LET uni == unis[k]
             name == Strip(uni.University)
         IN  IF NameInvalid(name, seen_names)
             THEN CleanLoopSeenAfterRank(unis, k + 1, cleaned, seen_names)
             ELSE IF IntRaises(uni.Rank) \/ RankRejected(uni.Rank.val)
             THEN CleanLoopSeenAfterRank(unis, k + 1, cleaned, seen_names)
             ELSE CleanLoopSeenAfterRank(unis, k + 1,
                            Append(cleaned,
                                   [Rank |-> uni.Rank.val,
                                    University |-> name,
                                    Country |-> StandardCountry(uni.Country),
                                    Score |-> NA,
                                    Enrollment |-> NA]),
                            seen_names \cup {name})

\* the first loop: name cleaning, name dedup, rank validation
RECURSIVE CleanLoop(_, _, _, _)
CleanLoop(unis, k, cleaned, seen_names) ==
    IF k > Len(unis) THEN cleaned
    ELSE LET uni == unis[k]
             name == Strip(uni.University)
         IN  IF NameInvalid(name, seen_names)
             THEN CleanLoop(unis, k + 1, cleaned, seen_names)
             ELSE IF IntRaises(uni.Rank) \/ RankRejected(uni.Rank.val)
             THEN CleanLoop(unis, k + 1, cleaned, seen_names \cup {name})
             ELSE CleanLoop(unis, k + 1,
                            Append(cleaned,
                                   [Rank |-> uni.Rank.val,
                                    University |-> name,
                                    Country |-> StandardCountry(uni.Country),
                                    Score |-> NA,
                                    Enrollment |-> NA]),
                            seen_names \cup {name})

InsertByRankUnstable(sorted, rec) ==
    LET before == {k \in 1..Len(sorted) : sorted[k].Rank < rec.Rank}
        n == Cardinality(before)
    IN  SubSeq(sorted, 1, n) \o <<rec>> \o SubSeq(sorted, n + 1, Len(sorted))

\* insert rec after every record whose rank is <= its own
InsertByRank(sorted, rec) ==
    LET before == {k \in 1..Len(sorted) : sorted[k].Rank <= rec.Rank}
        n == Cardinality(before)
    IN  SubSeq(sorted, 1, n) \o <<rec>> \o SubSeq(sorted, n + 1, Len(sorted))

\* list.sort(key=Rank): stable, ascending
RECURSIVE SortByRank(_)
SortByRank(recs) ==
    IF recs = << >> THEN << >>
    ELSE InsertByRank(SortByRank(SubSeq(recs, 1, Len(recs) - 1)),
                      recs[Len(recs)])

RECURSIVE DedupRanksKeepLast(_, _, _, _)
DedupRanksKeepLast(recs, k, final_cleaned, seen_ranks) ==
    IF k > Len(recs) THEN final_cleaned
    ELSE IF recs[k].Rank \notin seen_ranks
         THEN DedupRanksKeepLast(recs, k + 1, Append(final_cleaned, recs[k]),
                                 seen_ranks \cup {recs[k].Rank})
         ELSE DedupRanksKeepLast(recs, k + 1,
                                 [n \in 1..Len(final_cleaned) |->
                                     IF final_cleaned[n].Rank = recs[k].Rank
                                     THEN recs[k] ELSE final_cleaned[n]],
                                 seen_ranks)

\* the second loop: keep the first record of every rank
RECURSIVE DedupRanks(_, _, _, _)
DedupRanks(recs, k, final_cleaned, seen_ranks) ==
    IF k > Len(recs) THEN final_cleaned
    ELSE IF recs[k].Rank \notin seen_ranks
         THEN DedupRanks(recs, k + 1, Append(final_cleaned, recs[k]),
                         seen_ranks \cup {recs[k].Rank})
         ELSE DedupRanks(recs, k + 1, final_cleaned, seen_ranks)

\* _clean_and_standardize_data(universities)
CleanAndStandardize(unis) ==
    DedupRanks(SortByRank(CleanLoop(unis, 1, << >>, {})), 1, << >>, {})

\* int-valued 'Rank' fields
IntRank(n) == [ok |-> TRUE, val |-> n]

\* a 'Rank' field that int() rejects (None, or a non-numeric string)
BadRank == [ok |-> FALSE, val |-> 0]

Cand(r, n, c) == [Rank |-> r, University |-> n, Country |-> c]

ValidNameInputs == {<<"O","x","f","o","r","d">>, <<" ","O","x","f","o","r","d"," ">>, <<"M","I","T">>, <<"K","y","o","t","o">>}

InvalidNameInputs ==
    {<< >>, <<"A","b">>, <<" ","R","e","a","d"," ","M","o","r","e">>, <<"D","e","t","a","i","l","s">>, <<"V","i","e","w"," ","m","o","r","e">>,
     <<"U","n","k","n","o","w","n"," ","U","n","i","v","e","r","s","i","t","y">>}

\* candidate records as the strategies build them
CandidateInputs ==
    {Cand(IntRank(r), n, <<"J","a","p","a","n">>) : r \in {3, 5}, n \in ValidNameInputs}
    \cup
    {Cand(r, <<"M","I","T">>, <<"J","a","p","a","n">>) :
        r \in {BadRank, IntRank(-1), IntRank(0), IntRank(MaxRankAccepted),
               IntRank(MaxRankAccepted + 1)}}
    \cup
    {Cand(IntRank(MaxRankAccepted), <<"O","x","f","o","r","d">>, <<"J","a","p","a","n">>)}
    \cup
    {Cand(IntRank(3), n, <<"J","a","p","a","n">>) : n \in InvalidNameInputs}
    \cup
    {Cand(IntRank(5), <<"M","I","T">>, c) :
        c \in {<< >>, <<"N","/","A">>, <<"J">>, <<" ","U","n","i","t","e","d"," ","K","i","n","g","d","o","m"," ">>}}

ValidatorInit ==
    /\ v_in \in SeqsUpTo(CandidateInputs, MaxCands)
    /\ v_out = << >>
    /\ v_pc = "start"

\* one call of _clean_and_standardize_data
Clean ==
    /\ v_pc = "start"
    /\ v_out' = CleanAndStandardize(v_in)
    /\ v_pc' = "done"
    /\ UNCHANGED v_in

-----------------------------------------------------------------------------
(* Location canonicalizer: _is_likely_location, _map_location_to_country,  *)
(* _clean_location_text, _extract_and_clean_country                         *)

\* self.country_mapping, in the order of the dict literal
CountryMapping ==
    <<<<<<"c","a","m","b","r","i","d","g","e"," ","(","u",".","s",".",")">>, <<"U","n","i","t","e","d"," ","S","t","a","t","e","s">>>>,
      <<<<"c","a","m","b","r","i","d","g","e">>, <<"U","n","i","t","e","d"," ","S","t","a","t","e","s">>>>,
      <<<<"s","t","a","n","f","o","r","d">>, <<"U","n","i","t","e","d"," ","S","t","a","t","e","s">>>>,
      <<<<"n","e","w"," ","h","a","v","e","n">>, <<"U","n","i","t","e","d"," ","S","t","a","t","e","s">>>>,
      <<<<"p","r","i","n","c","e","t","o","n">>, <<"U","n","i","t","e","d"," ","S","t","a","t","e","s">>>>,
      <<<<"b","e","r","k","e","l","e","y">>, <<"U","n","i","t","e","d"," ","S","t","a","t","e","s">>>>,
      <<<<"l","o","s"," ","a","n","g","e","l","e","s">>, <<"U","n","i","t","e","d"," ","S","t","a","t","e","s">>>>,
      <<<<"a","n","n"," ","a","r","b","o","r">>, <<"U","n","i","t","e","d"," ","S","t","a","t","e","s">>>>,
      <<<<"s","e","a","t","t","l","e">>, <<"U","n","i","t","e","d"," ","S","t","a","t","e","s">>>>,
      <<<<"p","h","i","l","a","d","e","l","p","h","i","a">>, <<"U","n","i","t","e","d"," ","S","t","a","t","e","s">>>>,
      <<<<"c","h","i","c","a","g","o">>, <<"U","n","i","t","e","d"," ","S","t","a","t","e","s">>>>,
      <<<<"b","o","s","t","o","n">>, <<"U","n","i","t","e","d"," ","S","t","a","t","e","s">>>>,
      <<<<"n","e","w"," ","y","o","r","k">>, <<"U","n","i","t","e","d"," ","S","t","a","t","e","s">>>>,
      <<<<"b","a","l","t","i","m","o","r","e">>, <<"U","n","i","t","e","d"," ","S","t","a","t","e","s">>>>,
      <<<<"a","t","l","a","n","t","a">>, <<"U","n","i","t","e","d"," ","S","t","a","t","e","s">>>>,
      <<<<"d","u","r","h","a","m">>, <<"U","n","i","t","e","d"," ","S","t","a","t","e","s">>>>,
      <<<<"i","t","h","a","c","a">>, <<"U","n","i","t","e","d"," ","S","t","a","t","e","s">>>>,
      <<<<"o","x","f","o","r","d">>, <<"U","n","i","t","e","d"," ","K","i","n","g","d","o","m">>>>,
      <<<<"c","a","m","b","r","i","d","g","e"," ","(","u",".","k",".",")">>, <<"U","n","i","t","e","d"," ","K","i","n","g","d","o","m">>>>,
      <<<<"l","o","n","d","o","n">>, <<"U","n","i","t","e","d"," ","K","i","n","g","d","o","m">>>>,
      <<<<"e","d","i","n","b","u","r","g","h">>, <<"U","n","i","t","e","d"," ","K","i","n","g","d","o","m">>>>,
      <<<<"g","l","a","s","g","o","w">>, <<"U","n","i","t","e","d"," ","K","i","n","g","d","o","m">>>>,
      <<<<"t","o","r","o","n","t","o">>, <<"C","a","n","a","d","a">>>>,
      <<<<"v","a","n","c","o","u","v","e","r">>, <<"C","a","n","a","d","a">>>>,
      <<<<"m","o","n","t","r","e","a","l">>, <<"C","a","n","a","d","a">>>>,
      <<<<"s","y","d","n","e","y">>, <<"A","u","s","t","r","a","l","i","a">>>>,
      <<<<"m","e","l","b","o","u","r","n","e">>, <<"A","u","s","t","r","a","l","i","a">>>>,
      <<<<"c","a","n","b","e","r","r","a">>, <<"A","u","s","t","r","a","l","i","a">>>>,
      <<<<"z","u","r","i","c","h">>, <<"S","w","i","t","z","e","r","l","a","n","d">>>>,
      <<<<"b","e","i","j","i","n","g">>, <<"C","h","i","n","a">>>>,
      <<<<"s","h","a","n","g","h","a","i">>, <<"C","h","i","n","a">>>>,
      <<<<"h","o","n","g"," ","k","o","n","g">>, <<"H","o","n","g"," ","K","o","n","g">>>>,
      <<<<"s","i","n","g","a","p","o","r","e">>, <<"S","i","n","g","a","p","o","r","e">>>>,
      <<<<"t","o","k","y","o">>, <<"J","a","p","a","n">>>>,
      <<<<"k","y","o","t","o">>, <<"J","a","p","a","n">>>>,
      <<<<"m","u","n","i","c","h">>, <<"G","e","r","m","a","n","y">>>>,
      <<<<"b","e","r","l","i","n">>, <<"G","e","r","m","a","n","y">>>>,
      <<<<"h","e","i","d","e","l","b","e","r","g">>, <<"G","e","r","m","a","n","y">>>>,
      <<<<"p","a","r","i","s">>, <<"F","r","a","n","c","e">>>>,
      <<<<"s","t","o","c","k","h","o","l","m">>, <<"S","w","e","d","e","n">>>>,
      <<<<"c","o","p","e","n","h","a","g","e","n">>, <<"D","e","n","m","a","r","k">>>>,
      <<<<"o","s","l","o">>, <<"N","o","r","w","a","y">>>>,
      <<<<"h","e","l","s","i","n","k","i">>, <<"F","i","n","l","a","n","d">>>>,
      <<<<"a","m","s","t","e","r","d","a","m">>, <<"N","e","t","h","e","r","l","a","n","d","s">>>>,
      <<<<"u","t","r","e","c","h","t">>, <<"N","e","t","h","e","r","l","a","n","d","s">>>>,
      <<<<"m","i","l","a","n">>, <<"I","t","a","l","y">>>>,
      <<<<"r","o","m","e">>, <<"I","t","a","l","y">>>>,
      <<<<"m","a","d","r","i","d">>, <<"S","p","a","i","n">>>>,
      <<<<"b","a","r","c","e","l","o","n","a">>, <<"S","p","a","i","n">>>>,
      <<<<"v","i","e","n","n","a">>, <<"A","u","s","t","r","i","a">>>>,
      <<<<"b","r","u","s","s","e","l","s">>, <<"B","e","l","g","i","u","m">>>>,
      <<<<"t","e","l"," ","a","v","i","v">>, <<"I","s","r","a","e","l">>>>,
      <<<<"j","e","r","u","s","a","l","e","m">>, <<"I","s","r","a","e","l">>>>,
      <<<<"s","e","o","u","l">>, <<"S","o","u","t","h"," ","K","o","r","e","a">>>>,
      <<<<"t","a","i","p","e","i">>, <<"T","a","i","w","a","n">>>>,
      <<<<"m","u","m","b","a","i">>, <<"I","n","d","i","a">>>>,
      <<<<"d","e","l","h","i">>, <<"I","n","d","i","a">>>>,
      <<<<"b","a","n","g","a","l","o","r","e">>, <<"I","n","d","i","a">>>>,
      <<<<"s","a~","o"," ","p","a","u","l","o">>, <<"B","r","a","z","i","l">>>>,
      <<<<"r","i","o"," ","d","e"," ","j","a","n","e","i","r","o">>, <<"B","r","a","z","i","l">>>>,
      <<<<"m","e","x","i","c","o"," ","c","i","t","y">>, <<"M","e","x","i","c","o">>>>>>

\* country_patterns, in the order of the dict literal
CountryPatterns ==
    <<<<<<"u","n","i","t","e","d"," ","s","t","a","t","e","s">>, <<<<"u",".","s",".">>, <<"u","s","a">>, <<"a","m","e","r","i","c","a">>, <<"s","t","a","t","e","s">>>>>>,
      <<<<"U","n","i","t","e","d"," ","K","i","n","g","d","o","m">>,
        <<<<"u",".","k",".">>, <<"u","k">>, <<"b","r","i","t","a","i","n">>, <<"e","n","g","l","a","n","d">>, <<"s","c","o","t","l","a","n","d">>, <<"w","a","l","e","s">>>>>>,
      <<<<"C","h","i","n","a">>, <<<<"p","r","c">>, <<"m","a","i","n","l","a","n","d"," ","c","h","i","n","a">>>>>>,
      <<<<"S","o","u","t","h"," ","K","o","r","e","a">>, <<<<"k","o","r","e","a">>, <<"r","e","p","u","b","l","i","c"," ","o","f"," ","k","o","r","e","a">>>>>>,
      <<<<"T","a","i","w","a","n">>, <<<<"r","e","p","u","b","l","i","c"," ","o","f"," ","c","h","i","n","a">>, <<"r","o","c">>>>>>,
      <<<<"H","o","n","g"," ","K","o","n","g">>, <<<<"h","k">>, <<"h","o","n","g"," ","k","o","n","g"," ","s","a","r">>>>>>>>

\* the least element of a non-empty set of integers
Min(S) == CHOOSE x \in S : \A y \in S : x <= y

\* the first index >= p of s that holds no whitespace, Len(s) + 1 if none
SkipSpaces(s, p) ==
    Min({q \in p..(Len(s) + 1) :
            /\ (q = Len(s) + 1 \/ ~IsSpace(s[q]))
            /\ \A m \in p..(q - 1) : IsSpace(s[m])})

\* \s*\(.*?\)\s* matches at p
ParenMatchAt(s, p) ==
    LET q == SkipSpaces(s, p)
    IN  /\ q <= Len(s)
        /\ s[q] = "("
        /\ \E r \in (q + 1)..Len(s) : s[r] = ")"

\* re.sub(r'\s*\(.*?\)\s*', '', s)
RECURSIVE RemoveParens(_)
RemoveParens(s) ==
    LET starts == {p \in 1..Len(s) : ParenMatchAt(s, p)}
    IN  IF starts = {} THEN s
        ELSE LET p == Min(starts)
                 q == SkipSpaces(s, p)
                 r == Min({x \in (q + 1)..Len(s) : s[x] = ")"})
                 e == SkipSpaces(s, r + 1) - 1
             IN  Slice(s, 1, p - 1) \o RemoveParens(Slice(s, e + 1, Len(s)))

\* re.sub(r'\s*-.*$', '', s)
RemoveDashTail(s) ==
    LET dashes == {d \in 1..Len(s) : s[d] = "-"}
    IN  IF dashes = {} THEN s
        ELSE LET d == Min(dashes)
                 p == Min({x \in 1..d : \A m \in x..(d - 1) : IsSpace(s[m])})
             IN  Slice(s, 1, p - 1)

\* re.sub(r'^\s*[^A-Za-z]*', '', s)
RemoveLeadingNonLetters(s) ==
    LET letters == {k \in 1..Len(s) : IsAsciiAlpha(s[k])}
    IN  IF letters = {} THEN << >> ELSE Slice(s, Min(letters), Len(s))

\* str.split()
RECURSIVE Words(_)
Words(s) ==
    LET a == SkipSpaces(s, 1)
    IN  IF a > Len(s) THEN << >>
        ELSE LET b == Min({q \in a..(Len(s) + 1) :
                              q = Len(s) + 1 \/ IsSpace(s[q])})
             IN  <<Slice(s, a, b - 1)>> \o Words(Slice(s, b, Len(s)))

\* str.capitalize()
Capitalize(w) ==
    IF w = << >> THEN << >>
    ELSE <<UpperChar(w[1])>> \o Lower(Slice(w, 2, Len(w)))

\* ' '.join(ws)
RECURSIVE JoinWords(_)
JoinWords(ws) ==
    IF ws = << >> THEN << >>
    ELSE IF Len(ws) = 1 THEN ws[1]
    ELSE ws[1] \o <<" ">> \o JoinWords(Tail(ws))

\* ' '.join(word.capitalize() for word in ws)
CapitalizeWords(ws) == JoinWords([k \in 1..Len(ws) |-> Capitalize(ws[k])])

\* the capitalisation step of _clean_location_text
CapitalizeCleaned(cleaned) ==
    IF Len(cleaned) > 1 THEN CapitalizeWords(Words(cleaned)) ELSE cleaned

\* _clean_location_text(text)
CleanLocationText(text) ==
    CapitalizeCleaned(
        Strip(RemoveLeadingNonLetters(RemoveDashTail(RemoveParens(Strip(text))))))

\* the normalisation at the head of _map_location_to_country
LocationLower(location_text) ==
    Strip(RemoveDashTail(RemoveParens(Strip(Lower(location_text)))))

\* mapped_country.lower() for every value of self.country_mapping, in order
MappingValuesLower ==
    [k \in 1..Len(CountryMapping) |-> Lower(CountryMapping[k][2])]

\* the three lookups of _map_location_to_country on the normalised text:
\* the direct mapping, the country patterns, the known country names
LookupCountry(location_lower) ==
    LET direct == {k \in 1..Len(CountryMapping) :
                      CountryMapping[k][1] = location_lower}
        byPattern == {k \in 1..Len(CountryPatterns) :
                         \E m \in 1..Len(CountryPatterns[k][2]) :
                             Contains(location_lower, CountryPatterns[k][2][m])}
        byName == {k \in 1..Len(CountryMapping) :
                      Contains(location_lower, MappingValuesLower[k])}
    IN  IF direct # {} THEN CountryMapping[Min(direct)][2]
        ELSE IF byPattern # {} THEN CountryPatterns[Min(byPattern)][1]
        ELSE IF byName # {} THEN CountryMapping[Min(byName)][2]
        ELSE NA

\* _map_location_to_country(location_text)
MapLocationToCountry(location_text) == LookupCountry(LocationLower(location_text))

\* the skip patterns of _is_likely_location, on the lowercased, trimmed text
SkipPatternMatches(text_lower) ==
    \/ (text_lower # << >> /\ \A k \in 1..Len(text_lower) : IsDigit(text_lower[k]))
    \/ Contains(text_lower, <<"g","l","o","b","a","l"," ","s","c","o","r","e">>)
    \/ Contains(text_lower, <<"e","n","r","o","l","l","m","e","n","t">>)
    \/ Contains(text_lower, <<"f","o","u","n","d","e","d">>)
    \/ Contains(text_lower, <<"r","e","a","d"," ","m","o","r","e">>)
    \/ (Len(text_lower) >= 2 /\ text_lower[1] = "#" /\ IsDigit(text_lower[2]))
    \/ Contains(text_lower, <<"b","e","s","t"," ","g","l","o","b","a","l">>)
    \/ Contains(text_lower, <<"u","n","i","v","e","r","s","i","t","i","e","s">>)

\* \b(w)\b for a token w that starts and ends with a word character
WordMatch(s, w) ==
    \E k \in 1..Len(s) :
        /\ MatchAt(s, w, k)
        /\ (k = 1 \/ ~IsWordChar(s[k - 1]))
        /\ (k + Len(w) - 1 = Len(s) \/ ~IsWordChar(s[k + Len(w)]))

\* \b(w)\b for a token w that starts with a word character and ends with '.':
\* the closing \b needs a word character right after the token
DottedWordMatch(s, w) ==
    \E k \in 1..Len(s) :
        /\ MatchAt(s, w, k)
        /\ (k = 1 \/ ~IsWordChar(s[k - 1]))
        /\ k + Len(w) <= Len(s)
        /\ IsWordChar(s[k + Len(w)])

LocationCountryTokens ==
    {<<"u","n","i","t","e","d"," ","s","t","a","t","e","s">>, <<"u","n","i","t","e","d"," ","k","i","n","g","d","o","m">>, <<"c","a","n","a","d","a">>, <<"a","u","s","t","r","a","l","i","a">>,
     <<"g","e","r","m","a","n","y">>, <<"f","r","a","n","c","e">>, <<"c","h","i","n","a">>, <<"j","a","p","a","n">>, <<"i","n","d","i","a">>, <<"b","r","a","z","i","l">>,
     <<"i","t","a","l","y">>, <<"s","p","a","i","n">>, <<"n","e","t","h","e","r","l","a","n","d","s">>, <<"s","w","e","d","e","n">>, <<"s","w","i","t","z","e","r","l","a","n","d">>,
     <<"b","e","l","g","i","u","m">>, <<"a","u","s","t","r","i","a">>, <<"d","e","n","m","a","r","k">>, <<"n","o","r","w","a","y">>, <<"f","i","n","l","a","n","d">>,
     <<"s","i","n","g","a","p","o","r","e">>, <<"h","o","n","g"," ","k","o","n","g">>, <<"s","o","u","t","h"," ","k","o","r","e","a">>, <<"t","a","i","w","a","n">>, <<"i","s","r","a","e","l">>,
     <<"m","e","x","i","c","o">>}

LocationCityTokens ==
    {<<"c","a","m","b","r","i","d","g","e">>, <<"o","x","f","o","r","d">>, <<"l","o","n","d","o","n">>, <<"p","a","r","i","s">>, <<"t","o","k","y","o">>, <<"b","e","i","j","i","n","g">>,
     <<"s","y","d","n","e","y">>, <<"t","o","r","o","n","t","o">>, <<"m","u","n","i","c","h">>, <<"z","u","r","i","c","h">>, <<"s","t","o","c","k","h","o","l","m">>,
     <<"a","m","s","t","e","r","d","a","m">>, <<"c","o","p","e","n","h","a","g","e","n">>, <<"v","i","e","n","n","a">>, <<"b","r","u","s","s","e","l","s">>, <<"m","a","d","r","i","d">>,
     <<"b","a","r","c","e","l","o","n","a">>, <<"m","i","l","a","n">>, <<"r","o","m","e">>}

\* the location indicators of _is_likely_location
LocationIndicatorMatches(text_lower) ==
    \/ DottedWordMatch(text_lower, <<"u",".","s",".">>)
    \/ DottedWordMatch(text_lower, <<"u",".","k",".">>)
    \/ \E w \in LocationCountryTokens : WordMatch(text_lower, w)
    \/ \E w \in LocationCityTokens : WordMatch(text_lower, w)

\* the decision of _is_likely_location; text_lower is text.lower().strip()
LikelyLocation(text, text_lower) ==
    IF SkipPatternMatches(text_lower) THEN FALSE
    ELSE IF LocationIndicatorMatches(text_lower) THEN TRUE
    ELSE /\ Len(Words(text)) <= 3
         /\ IsUpper(text[1])
         /\ \A k \in 1..Len(text) : ~IsDigit(text[k])

\* _is_likely_location(text), for a non-empty text
IsLikelyLocation(text) == LikelyLocation(text, Strip(Lower(text)))

\* what one line contributes in _extract_and_clean_country: the mapped
\* country, else the cleaned line when longer than 2, else nothing ('N/A')
MappedOrCleaned(mapped_country, cleaned_line) ==
    IF mapped_country # NA THEN mapped_country
    ELSE IF Len(cleaned_line) > 2 THEN cleaned_line
    ELSE NA

Canonicalize(line) ==
    IF ~IsLikelyLocation(line) THEN NA
    ELSE MappedOrCleaned(MapLocationToCountry(line), CleanLocationText(line))

\* the lines _extract_and_clean_country does not look at
CountryLineSkipped(line, university_name) ==
    \/ Contains(Lower(line), Lower(university_name))
    \/ StartsWith(line, <<"#">>)
    \/ Contains(Lower(line), <<"s","c","o","r","e">>)
    \/ Contains(Lower(line), <<"e","n","r","o","l","l","m","e","n","t">>)
    \/ Contains(Lower(line), <<"r","e","a","d"," ","m","o","r","e">>)

\* the loop of _extract_and_clean_country over the stripped, non-empty lines
RECURSIVE CountryFromLines(_, _, _)
CountryFromLines(ls, k, university_name) ==
    IF k > Len(ls) THEN NA
    ELSE IF CountryLineSkipped(ls[k], university_name)
         THEN CountryFromLines(ls, k + 1, university_name)
    ELSE LET country == Canonicalize(ls[k])
         IN  IF country # NA THEN country
             ELSE CountryFromLines(ls, k + 1, university_name)

\* [line.strip() for line in text.split('\n') if line.strip()], the text
\* given as its '\n'-separated pieces
RECURSIVE StrippedLines(_)
StrippedLines(pieces) ==
    IF pieces = << >> THEN << >>
    ELSE IF Strip(pieces[1]) = << >> THEN StrippedLines(Tail(pieces))
    ELSE <<Strip(pieces[1])>> \o StrippedLines(Tail(pieces))

\* _extract_and_clean_country(item_text, university_name)
ExtractAndCleanCountry(item_text, university_name) ==
    CountryFromLines(StrippedLines(item_text), 1, university_name)

\* location texts: every alias key and canonical name, the sentinel, and
\* texts with parentheticals, dash clauses, substrings and odd characters
LocationBaseInputs ==
    {CountryMapping[k][1] : k \in 1..Len(CountryMapping)}
    \cup {CountryMapping[k][2] : k \in 1..Len(CountryMapping)}
    \cup {CountryPatterns[k][1] : k \in 1..Len(CountryPatterns)}
    \cup {NA, <<"C","a","m","b","r","i","d","g","e"," ","(","U",".","K",".",")">>, <<"C","a","m","b","r","i","d","g","e"," ","(","U",".","S",".",")">>, <<"T","o","k","y","o">>,
          <<"U","n","k","n","o","w","n"," ","T","o","w","n">>, <<"B","o","s","t","o","n",","," ","U","S","A">>, <<"U",".","S",".">>, <<"U",".","K","."," ","c","a","m","p","u","s">>,
          <<"S","o","u","t","h"," ","A","m","e","r","i","c","a">>, <<"U","k","r","a","i","n","e">>, <<"R","e","p","u","b","l","i","c"," ","o","f"," ","K","o","r","e","a">>,
          <<"H","o","n","g"," ","K","o","n","g"," ","S","A","R">>, <<"M","a","i","n","l","a","n","d"," ","C","h","i","n","a">>, <<"V","i","c","t","o","r","i","a",","," ","A","u","s","t","r","a","l","i","a">>,
          <<"N","e","w"," ","Y","o","r","k"," ","-"," ","M","a","n","h","a","t","t","a","n">>, <<".","t","o","k","y","o">>, <<"A","b">>, <<"4","2">>, <<"X","y"," ","7">>,
          <<"F","o","u","n","d","e","d"," ","1","2","0","9">>, <<"o","n","e"," ","t","w","o"," ","t","h","r","e","e"," ","f","o","u","r">>, <<"l","o","w","e","r"," ","t","o","w","n">>,
          <<"B","e","s","t"," ","G","l","o","b","a","l"," ","U","n","i","v","e","r","s","i","t","i","e","s">>, <<"#","1","2">>, <<"S","t","-","A","n","d","r","e","w","s">>,
          <<"(","M","a","i","n",")"," ","L","e","e","d","s">>, <<"X"," ","(","y">>, <<"Q">>}

\* a base text as it stands, upper-cased at the front, padded, with a
\* parenthetical, with a dash clause
LocationInputs ==
    LocationBaseInputs
    \cup {<<UpperChar(b[1])>> \o Tail(b) : b \in LocationBaseInputs}
    \cup {<<" ">> \o b \o <<" "," ">> : b \in LocationBaseInputs}
    \cup {b \o <<" ","(","U",".","K",".",")">> : b \in LocationBaseInputs}
    \cup {b \o <<" ","-"," ","C","i","t","y"," ","C","a","m","p","u","s">> : b \in LocationBaseInputs}

CanonInit ==
    /\ loc_in \in {Strip(t) : t \in LocationInputs}
    /\ loc_out = << >>
    /\ loc_pc = "start"

\* canonicalize applied to a line of an item's text
CanonicalizeInput ==
    /\ loc_pc = "start"
    /\ loc_out' = <<Canonicalize(loc_in)>>
    /\ loc_pc' = "once"
    /\ UNCHANGED loc_in

\* canonicalize applied to the value it returned
CanonicalizeOutput ==
    /\ loc_pc = "once"
    /\ loc_out' = Append(loc_out, Canonicalize(loc_out[1]))
    /\ loc_pc' = "twice"
    /\ UNCHANGED loc_in

-----------------------------------------------------------------------------
(* Link-anchor strategy: _extract_via_university_links *)

\* names the link strategy skips
LinkReservedNames == {<<"r","e","a","d"," ","m","o","r","e">>, <<"v","i","e","w"," ","m","o","r","e">>, <<"d","e","t","a","i","l","s">>}

\* positions of '#' followed by a digit
RankMarkerStarts(s) ==
    {k \in 1..Len(s) : s[k] = "#" /\ k + 1 <= Len(s) /\ IsDigit(s[k + 1])}

\* re.search(r'#(\d+)', s) matches
HasRankMarker(s) == RankMarkerStarts(s) # {}

\* int(group(1)) of the first match of r'#(\d+)' in s
FirstRankMarker(s) ==
    LET k == Min(RankMarkerStarts(s))
        e == Min({q \in (k + 1)..(Len(s) + 1) :
                     q = Len(s) + 1 \/ ~IsDigit(s[q])})
    IN  DigitsToInt(Slice(s, k + 1, e - 1))

\* re.search(r'#(\d+)', text) matches, the text given as its lines
TextHasRankMarker(text) == \E k \in 1..Len(text) : HasRankMarker(text[k])

\* the rank of the first marker of the text
TextFirstRankMarker(text) ==
    FirstRankMarker(text[Min({k \in 1..Len(text) : HasRankMarker(text[k])})])

\* the anchors the loop passes over: reading the text raises, the name is
\* empty, shorter than 3 or reserved, or no ancestor container is found
LinkSkipped(link) ==
    \/ link.stale
    \/ Strip(link.text) = << >>
    \/ Len(Strip(link.text)) < 3
    \/ Lower(Strip(link.text)) \in LinkReservedNames
    \/ ~link.has_parent

LinkRankMarkerOnly(link, idx) ==
    IF TextHasRankMarker(link.parent_text)
    THEN TextFirstRankMarker(link.parent_text)
    ELSE 0

\* rank = i + 1, replaced by the container's first '#<digits>'
LinkRank(link, idx) ==
    IF TextHasRankMarker(link.parent_text)
    THEN TextFirstRankMarker(link.parent_text)
    ELSE idx

\* the record appended for one anchor; idx is i + 1
LinkCandidate(link, idx) ==
    [Rank |-> IntRank(LinkRank(link, idx)),
     University |-> Strip(link.text),
     Country |-> ExtractAndCleanCountry(link.parent_text, Strip(link.text))]

\* the loop over enumerate(links)
RECURSIVE LinkLoop(_, _, _)
LinkLoop(links, k, unis) ==
    IF k > Len(links) THEN unis
    ELSE IF LinkSkipped(links[k]) THEN LinkLoop(links, k + 1, unis)
    ELSE LinkLoop(links, k + 1, Append(unis, LinkCandidate(links[k], k)))

\* _extract_via_university_links() on the anchors the driver finds
ExtractViaUniversityLinks(links) == LinkLoop(links, 1, << >>)

Link(t, p, pt) == [text |-> t, stale |-> FALSE, has_parent |-> p, parent_text |-> pt]

\* anchors as the driver may find them
LinkInputs ==
    {Link(<<"M","I","T">>, TRUE, <<<<"#","3">>, <<"M","I","T">>, <<"C","a","m","b","r","i","d","g","e"," ","(","U",".","S",".",")">>>>),
     Link(<<"M","I","T">>, TRUE, <<<<"M","I","T"," ","#","1","2"," ","(","t","i","e",")"," ","i","n"," ","B","e","s","t"," ","G","l","o","b","a","l"," ","U","n","i","v","e","r","s","i","t","i","e","s">>>>),
     Link(<<" ","O","x","f","o","r","d"," ">>, TRUE, <<<<"O","x","f","o","r","d">>, << >>, <<" ","O","x","f","o","r","d",","," ","E","n","g","l","a","n","d"," ">>>>),
     Link(<<"R","e","a","d"," ","M","o","r","e">>, TRUE, <<<<"#","3">>, <<"M","I","T">>, <<"R","e","a","d"," ","M","o","r","e">>>>),
     Link(<<"K","y","o","t","o"," ","U","n","i","v","e","r","s","i","t","y">>, FALSE, << >>),
     Link(<<"A","b">>, TRUE, <<<<"#","7">>, <<"A","b">>>>),
     [text |-> <<"M","I","T">>, stale |-> TRUE, has_parent |-> TRUE,
      parent_text |-> <<<<"#","3">>>>]}

LinksInit ==
    /\ l_links \in SeqsUpTo(LinkInputs, MaxLinks)
    /\ l_out = << >>
    /\ l_pc = "start"

\* one call of _extract_via_university_links
RunLinkStrategy ==
    /\ l_pc = "start"
    /\ l_out' = ExtractViaUniversityLinks(l_links)
    /\ l_pc' = "done"
    /\ UNCHANGED l_links

-----------------------------------------------------------------------------
(* Strategy chain: extract_university_data *)

\* number of strategies in the list
NumStrategies == 3

\* what a strategy call does: it raises, or it returns a list of candidates
Raised == [raises |-> TRUE, data |-> << >>]

Returned(data) == [raises |-> FALSE, data |-> data]

\* results of _extract_via_usnews_list_structure on the pages considered
ListStructureOutcomes ==
    {Raised} \cup
    {Returned(d) :
        d \in SeqsUpTo({Cand(IntRank(1), <<"M","I","T">>, <<"U","n","i","t","e","d"," ","S","t","a","t","e","s">>),
                        Cand(IntRank(2), <<"O","x","f","o","r","d">>, NA)}, MaxYield)}

\* results of _extract_via_ranking_items on the pages considered
RankingItemsOutcomes ==
    {Raised} \cup
    {Returned(d) :
        d \in SeqsUpTo({Cand(IntRank(1), <<"E","T","H"," ","Z","u","r","i","c","h">>, <<"S","w","i","t","z","e","r","l","a","n","d">>),
                        Cand(IntRank(1), <<"U","n","k","n","o","w","n"," ","U","n","i","v","e","r","s","i","t","y">>, NA)}, MaxYield)}

\* anchors on the pages considered
ChainLinkInputs ==
    {Link(<<"M","I","T">>, TRUE, <<<<"#","3">>, <<"M","I","T">>, <<"C","a","m","b","r","i","d","g","e"," ","(","U",".","S",".",")">>>>),
     Link(<<" ","O","x","f","o","r","d"," ">>, TRUE, <<<<"O","x","f","o","r","d">>, <<"O","x","f","o","r","d",","," ","E","n","g","l","a","n","d">>>>),
     Link(<<"R","e","a","d"," ","M","o","r","e">>, TRUE, <<<<"#","3">>, <<"R","e","a","d"," ","M","o","r","e">>>>)}

\* the pages considered: what each list-based strategy yields on them, the
\* anchors they hold, and whether looking the anchors up raises
Pages ==
    [s1 : ListStructureOutcomes,
     s2 : RankingItemsOutcomes,
     links : SeqsUpTo(ChainLinkInputs, MaxYield),
     links_raise : BOOLEAN]

\* strategy() for the k-th entry of the strategies list
StrategyOutcome(pg, k) ==
    CASE k = 1 -> pg.s1
      [] k = 2 -> pg.s2
      [] k = 3 -> IF pg.links_raise THEN Raised
                  ELSE Returned(ExtractViaUniversityLinks(pg.links))

ReplacesOnTie(extracted_data, current) ==
    extracted_data # << >> /\ Len(extracted_data) >= Len(current)

\* extracted_data and len(extracted_data) > len(self.universities)
Replaces(extracted_data, current) ==
    extracted_data # << >> /\ Len(extracted_data) > Len(current)

ReachedTargetStrict(n, target) == n > target

\* len(self.universities) >= self.max_entries
ReachedTarget(n, target) == n >= target

ChainInit ==
    /\ page \in Pages
    /\ max_entries \in 1..MaxTarget
    /\ strat_idx = 1
    /\ universities = << >>
    /\ ran = << >>
    /\ retained_from = 0
    /\ validated = FALSE
    /\ returned = << >>
    /\ c_pc = "loop"

RunStrategyRaiseStops ==
    /\ c_pc = "loop"
    /\ strat_idx <= NumStrategies
    /\ \E outcome \in {StrategyOutcome(page, strat_idx)} :
         LET replaces == ~outcome.raises /\ Replaces(outcome.data, universities)
             kept == IF replaces THEN outcome.data ELSE universities
             stop == replaces /\ ReachedTarget(Len(kept), max_entries)
         IN  /\ universities' = kept
             /\ retained_from' = IF replaces THEN strat_idx ELSE retained_from
             /\ ran' = Append(ran, [strategy |-> strat_idx,
                                    raised |-> outcome.raises,
                                    data |-> outcome.data,
                                    retained |-> Len(kept)])
             /\ strat_idx' = strat_idx + 1
             /\ c_pc' = IF stop \/ outcome.raises \/ strat_idx = NumStrategies
                        THEN "after_loop" ELSE "loop"
    /\ UNCHANGED <<page, max_entries, validated, returned>>

\* one iteration of the loop over the strategies; ran logs the call
RunStrategy ==
    /\ c_pc = "loop"
    /\ strat_idx <= NumStrategies
    /\ \E outcome \in {StrategyOutcome(page, strat_idx)} :
         LET replaces == ~outcome.raises /\ Replaces(outcome.data, universities)
             kept == IF replaces THEN outcome.data ELSE universities
             stop == replaces /\ ReachedTarget(Len(kept), max_entries)
         IN  /\ universities' = kept
             /\ retained_from' = IF replaces THEN strat_idx ELSE retained_from
             /\ ran' = Append(ran, [strategy |-> strat_idx,
                                    raised |-> outcome.raises,
                                    data |-> outcome.data,
                                    retained |-> Len(kept)])
             /\ strat_idx' = strat_idx + 1
             /\ c_pc' = IF stop \/ strat_idx = NumStrategies
                        THEN "after_loop" ELSE "loop"
    /\ UNCHANGED <<page, max_entries, validated, returned>>

\* after the loop: nothing retained returns [], else the validator runs
FinishExtraction ==
    /\ c_pc = "after_loop"
    /\ IF universities = << >>
       THEN /\ returned' = << >>
            /\ UNCHANGED <<universities, validated>>
       ELSE /\ universities' = CleanAndStandardize(universities)
            /\ returned' = CleanAndStandardize(universities)
            /\ validated' = TRUE
    /\ c_pc' = "done"
    /\ UNCHANGED <<page, max_entries, strat_idx, ran, retained_from>>

-----------------------------------------------------------------------------
(* Complete workflow: extract_rankings *)

\* the loop of extract_university_data from the k-th strategy on, as a
\* function of the page: the list retained when the loop ends
RECURSIVE ChainLoop(_, _, _, _)
ChainLoop(pg, target, k, current) ==
    IF k > NumStrategies THEN current
    ELSE LET outcome == StrategyOutcome(pg, k)
         IN  IF ~outcome.raises /\ Replaces(outcome.data, current)
             THEN IF ReachedTarget(Len(outcome.data), target)
                  THEN outcome.data
                  ELSE ChainLoop(pg, target, k + 1, outcome.data)
             ELSE ChainLoop(pg, target, k + 1, current)

\* what extract_university_data returns on a page
ExtractUniversityData(pg, target) ==
    LET kept == ChainLoop(pg, target, 1, << >>)
    IN  IF kept = << >> THEN << >> ELSE CleanAndStandardize(kept)

\* the value extract_rankings returns when the page load found no entries
NoSourceDataResult == "False"

\* the value extract_rankings returns when no strategy extracted anything
EmptyResultValue == "False"

\* the value extract_rankings returns when a step raised
ExceptionResult == "False"

WorkflowInit ==
    /\ w_page \in Pages
    /\ w_target \in 1..MaxTarget
    /\ w_loaded \in 0..MaxLoaded
    /\ w_universities = << >>
    /\ w_log = << >>
    /\ w_result = "pending"
    /\ w_pc = "load"

\* setup_driver and load_all_universities: either may raise; a page without
\* entries ends the workflow
LoadPage ==
    /\ w_pc = "load"
    /\ \E raises \in BOOLEAN :
          IF raises
          THEN /\ w_log' = <<"E","x","t","r","a","c","t","i","o","n"," ","f","a","i","l","e","d">>
               /\ w_result' = ExceptionResult
               /\ w_pc' = "done"
          ELSE IF w_loaded = 0
          THEN /\ w_log' = <<"N","o"," ","u","n","i","v","e","r","s","i","t","y"," ","e","n","t","r","i","e","s"," ","f","o","u","n","d">>
               /\ w_result' = NoSourceDataResult
               /\ w_pc' = "done"
          ELSE /\ w_pc' = "extract"
               /\ UNCHANGED <<w_log, w_result>>
    /\ UNCHANGED <<w_page, w_target, w_loaded, w_universities>>

\* extract_university_data and the test of its result
ExtractData ==
    /\ w_pc = "extract"
    /\ \E data \in {ExtractUniversityData(w_page, w_target)} :
          /\ w_universities' = data
          /\ IF data = << >>
             THEN /\ w_log' = <<"F","a","i","l","e","d"," ","t","o"," ","e","x","t","r","a","c","t"," ","u","n","i","v","e","r","s","i","t","y"," ","d","a","t","a">>
                  /\ w_result' = EmptyResultValue
                  /\ w_pc' = "done"
             ELSE /\ w_pc' = "save"
                  /\ UNCHANGED <<w_log, w_result>>
    /\ UNCHANGED <<w_page, w_target, w_loaded>>

\* save_to_csv on a non-empty list: True, unless writing the file raises
SaveData ==
    /\ w_pc = "save"
    /\ \E raises \in BOOLEAN :
          IF raises
          THEN /\ w_log' = <<"E","x","t","r","a","c","t","i","o","n"," ","f","a","i","l","e","d">>
               /\ w_result' = ExceptionResult
          ELSE /\ w_result' = "True"
               /\ UNCHANGED w_log
    /\ w_pc' = "done"
    /\ UNCHANGED <<w_page, w_target, w_loaded, w_universities>>

-----------------------------------------------------------------------------
(* Load loop: _scroll_and_load_content *)

\* iterations with an unchanged count after which the loop gives up
SameCountLimit == 5

\* time.time() - start_time < max_wait_time
WithinWaitTime(elapsed, max_wait_time) == elapsed < max_wait_time

\* current_count >= self.max_entries
TargetLoaded(current_count, target) == current_count >= target

SameCountNeverReset(same_count_iterations, current_count, last_count) ==
    IF current_count = last_count THEN same_count_iterations + 1
    ELSE same_count_iterations

\* same_count_iterations after the comparison with last_count
SameCountAfter(same_count_iterations, current_count, last_count) ==
    IF current_count = last_count THEN same_count_iterations + 1 ELSE 0

\* same_count_iterations >= 5, tested only when the count is unchanged
Stalled(same_count_iterations, current_count, last_count) ==
    current_count = last_count /\ same_count_iterations >= SameCountLimit

LoadInit ==
    /\ ld_target \in 1..MaxTarget
    /\ ld_wait \in 0..MaxWait
    /\ ld_elapsed = 0
    /\ ld_last = 0
    /\ ld_same = 0
    /\ ld_current = 0
    /\ ld_exit = "none"
    /\ ld_returned = 0
    /\ ld_prev = 0
    /\ ld_run = 0
    /\ ld_pc = "loop"

\* one iteration of the while loop: the page shows some number of entries and
\* the sleeps of the iteration let the clock advance.  ld_prev and ld_run
\* record the count seen by the iteration before and the number of
\* iterations in a row that saw the count of the iteration before them.
LoadIteration ==
    /\ ld_pc = "loop"
    /\ WithinWaitTime(ld_elapsed, ld_wait)
    /\ \E current_count \in 0..MaxCount, ticks \in 1..MaxIterTicks :
          LET same == SameCountAfter(ld_same, current_count, ld_last)
          IN  /\ ld_current' = current_count
              /\ ld_elapsed' = ld_elapsed + ticks
              /\ ld_prev' = current_count
              /\ ld_run' = IF current_count = ld_prev THEN ld_run + 1 ELSE 0
              /\ IF TargetLoaded(current_count, ld_target)
                 THEN /\ ld_exit' = "target"
                      /\ ld_pc' = "done"
                      /\ UNCHANGED <<ld_same, ld_last>>
                 ELSE IF Stalled(same, current_count, ld_last)
                 THEN /\ ld_same' = same
                      /\ ld_exit' = "stalled"
                      /\ ld_pc' = "done"
                      /\ UNCHANGED ld_last
                 ELSE /\ ld_same' = same
                      /\ ld_last' = current_count
                      /\ UNCHANGED <<ld_exit, ld_pc>>
              /\ \E final_count \in 0..MaxCount :
                    ld_returned' = IF ld_pc' = "done" THEN final_count
                                   ELSE ld_returned
    /\ UNCHANGED <<ld_target, ld_wait>>

\* the while condition fails: the loop ends and the entries are counted
LoadTimeout ==
    /\ ld_pc = "loop"
    /\ ~WithinWaitTime(ld_elapsed, ld_wait)
    /\ ld_exit' = "timeout"
    /\ ld_pc' = "done"
    /\ \E final_count \in 0..MaxCount : ld_returned' = final_count
    /\ UNCHANGED <<ld_target, ld_wait, ld_elapsed, ld_last, ld_same,
                   ld_current, ld_prev, ld_run>>

-----------------------------------------------------------------------------
(* Sequential line scan: parse_usnews_text *)

\* lines starting with one of these are not names (first startswith)
FieldPrefixes ==
    {<<"#">>, <<"G","l","o","b","a","l"," ","S","c","o","r","e">>, <<"E","n","r","o","l","l","m","e","n","t">>, <<"h","t","t","p">>, <<"H","i"," ","t","h","e","r","e">>,
     <<"5","/","3","1","/","2","5">>, <<"R","e","a","d"," ","M","o","r","e">>}

\* lines starting with one of these are not names (second startswith)
PagePrefixes ==
    {<<"B","E","S","T"," ","C","O","L","L","E","G","E","S">>, <<"S","a","v","o","r"," ","S","e","o","u","l">>, <<"E","D","U","C","A","T","I","O","N">>, <<"H","o","m","e"," ","/">>,
     <<"2","0","2","4","-","2","0","2","5"," ","B","e","s","t">>, <<"T","h","e","s","e"," ","i","n","s","t","i","t","u","t","i","o","n","s">>, <<"T","o"," ","u","n","l","o","c","k">>, <<"S","u","m","m","a","r","y">>,
     <<"P","O","W","E","R","E","D"," ","B","Y">>, <<"C","a","n","a","d","a"," ","C","h","i","n","a">>, <<"L","o","a","d"," ","M","o","r","e">>, <<"C","o","p","y","r","i","g","h","t"," ","2","0","2","5">>}

\* re.match(r'^\w+$', s)
IsBareWord(s) == s # << >> /\ \A k \in 1..Len(s) : IsWordChar(s[k])

\* the test that detects a university name
IsNameLine(s) ==
    /\ ~\E p \in FieldPrefixes : StartsWith(s, p)
    /\ ~IsBareWord(s)
    /\ ~Contains(s, <<"|">>)
    /\ ~\E p \in PagePrefixes : StartsWith(s, p)

\* s.split('|')[0]
BeforeFirstPipe(s) ==
    Slice(s, 1, Min({k \in 1..Len(s) : s[k] = "|"}) - 1)

\* re.sub(r'\s*\(tie\).*', '', s)
RemoveTie(s) ==
    LET ties == {q \in 1..Len(s) : MatchAt(s, <<"(","t","i","e",")">>, q)}
    IN  IF ties = {} THEN s
        ELSE LET q == Min(ties)
                 p == Min({x \in 1..q : \A m \in x..(q - 1) : IsSpace(s[m])})
             IN  Slice(s, 1, p - 1)

\* re.sub(r'#(\d+).*', r'\1', s)
ExtractNumber(s) ==
    IF ~HasRankMarker(s) THEN s
    ELSE LET k == Min(RankMarkerStarts(s))
             e == Min({q \in (k + 1)..(Len(s) + 1) :
                          q = Len(s) + 1 \/ ~IsDigit(s[q])})
         IN  Slice(s, 1, k - 1) \o Slice(s, k + 1, e - 1)

\* int(s) succeeds; s is a run of digits, or still holds its '#'
IntParses(s) == s # << >> /\ \A k \in 1..Len(s) : IsDigit(s[k])

\* re.match(r'^\d+\.\d+$', s)
IsDecimal(s) ==
    \E d \in 2..(Len(s) - 1) :
        /\ s[d] = "."
        /\ \A k \in 1..Len(s) : k # d => IsDigit(s[k])

\* s.replace(',', '')
RECURSIVE RemoveCommas(_)
RemoveCommas(s) ==
    IF s = << >> THEN << >>
    ELSE IF s[1] = "," THEN RemoveCommas(Tail(s))
    ELSE <<s[1]>> \o RemoveCommas(Tail(s))

EntryCompleteAnyRank(rank_state, rank, university) ==
    rank_state = "parsed" /\ university # NA

\* rank and university != 'N/A'
EntryComplete(rank_state, rank, university) ==
    rank_state = "parsed" /\ rank # 0 /\ university # NA

\* the end of an iteration that detected a name and did not hit an invalid
\* rank: the entry is appended or skipped.  cur lists the cursor after every
\* step: start, name, country, rank, 'in Best Global Universities',
\* 'Global Score', score value, 'Enrollment', enrollment value.
ValidateEntry(cur, university, country, rank_state, rank, score, enrollment) ==
    [path |-> IF EntryComplete(rank_state, rank, university)
              THEN "emitted" ELSE "incomplete",
     cur |-> cur,
     rank_state |-> rank_state,
     rec |-> [Rank |-> rank, University |-> university, Country |-> country,
              Score |-> score, Enrollment |-> enrollment]]

\* the cursor after the last step taken
Cursor(cur) == cur[Len(cur)]

\* the line at the cursor matches: i < len(lines) and test(lines[i])
AtEnrollmentLabel(ls, j) == j < Len(ls) /\ ls[j + 1] = <<"E","n","r","o","l","l","m","e","n","t">>

\* extract enrollment
EnrollmentStep(ls, cur, university, country, rank_state, rank, score) ==
    IF AtEnrollmentLabel(ls, Cursor(cur))
    THEN IF Cursor(cur) + 1 < Len(ls)
         THEN ValidateEntry(cur \o <<Cursor(cur) + 1, Cursor(cur) + 2>>,
                            university, country, rank_state, rank, score,
                            RemoveCommas(ls[Cursor(cur) + 2]))
         ELSE ValidateEntry(cur \o <<Cursor(cur) + 1, Cursor(cur) + 1>>,
                            university, country, rank_state, rank, score, NA)
    ELSE ValidateEntry(cur \o <<Cursor(cur), Cursor(cur)>>,
                       university, country, rank_state, rank, score, NA)

AtScoreLabel(ls, j) == j < Len(ls) /\ ls[j + 1] = <<"G","l","o","b","a","l"," ","S","c","o","r","e">>

ScoreValueAnyLine(ls, j) == j < Len(ls)

\* i < len(lines) and re.match(r'^\d+\.\d+$', lines[i])
ScoreValueAt(ls, j) == j < Len(ls) /\ IsDecimal(ls[j + 1])

\* extract score
ScoreStep(ls, cur, university, country, rank_state, rank) ==
    IF AtScoreLabel(ls, Cursor(cur))
    THEN IF ScoreValueAt(ls, Cursor(cur) + 1)
         THEN EnrollmentStep(ls, cur \o <<Cursor(cur) + 1, Cursor(cur) + 2>>,
                             university, country, rank_state, rank,
                             ls[Cursor(cur) + 2])
         ELSE EnrollmentStep(ls, cur \o <<Cursor(cur) + 1, Cursor(cur) + 1>>,
                             university, country, rank_state, rank, NA)
    ELSE EnrollmentStep(ls, cur \o <<Cursor(cur), Cursor(cur)>>,
                        university, country, rank_state, rank, NA)

AtBestGlobal(ls, j) ==
    j < Len(ls) /\ Contains(ls[j + 1], <<"i","n"," ","B","e","s","t"," ","G","l","o","b","a","l"," ","U","n","i","v","e","r","s","i","t","i","e","s">>)

\* skip 'in Best Global Universities'
BestGlobalStep(ls, cur, university, country, rank_state, rank) ==
    IF AtBestGlobal(ls, Cursor(cur))
    THEN ScoreStep(ls, Append(cur, Cursor(cur) + 1),
                   university, country, rank_state, rank)
    ELSE ScoreStep(ls, Append(cur, Cursor(cur)),
                   university, country, rank_state, rank)

AtRankLine(ls, j) == j < Len(ls) /\ StartsWith(ls[j + 1], <<"#">>)

\* the two substitutions applied to the rank line
RankText(s) == ExtractNumber(RemoveTie(s))

\* extract rank; an invalid rank ends the iteration after the rank line
RankStep(ls, cur, university, country) ==
    IF AtRankLine(ls, Cursor(cur))
    THEN IF IntParses(RankText(ls[Cursor(cur) + 1]))
         THEN BestGlobalStep(ls, Append(cur, Cursor(cur) + 1),
                             university, country, "parsed",
                             DigitsToInt(RankText(ls[Cursor(cur) + 1])))
         ELSE [path |-> "invalid_rank",
               cur |-> Append(cur, Cursor(cur) + 1),
               rank_state |-> "invalid",
               rec |-> [Rank |-> 0, University |-> university,
                        Country |-> country, Score |-> NA, Enrollment |-> NA]]
    ELSE BestGlobalStep(ls, Append(cur, Cursor(cur)),
                        university, country, "none", 0)

AtCountryLine(ls, j) == j < Len(ls) /\ Contains(ls[j + 1], <<"|">>)

CountryStepWholeLine(ls, cur, university) ==
    IF AtCountryLine(ls, Cursor(cur))
    THEN RankStep(ls, Append(cur, Cursor(cur) + 1), university,
                  Strip(ls[Cursor(cur) + 1]))
    ELSE RankStep(ls, Append(cur, Cursor(cur)), university, NA)

\* extract country
CountryStep(ls, cur, university) ==
    IF AtCountryLine(ls, Cursor(cur))
    THEN RankStep(ls, Append(cur, Cursor(cur) + 1), university,
                  Strip(BeforeFirstPipe(ls[Cursor(cur) + 1])))
    ELSE RankStep(ls, Append(cur, Cursor(cur)), university, NA)

ScanIterationNoAdvance(ls, j) ==
    IF IsNameLine(ls[j + 1])
    THEN CountryStep(ls, <<j, j + 1>>, Strip(ls[j + 1]))
    ELSE [path |-> "not_name",
          cur |-> <<j, j>>,
          rank_state |-> "none",
          rec |-> [Rank |-> 0, University |-> NA, Country |-> NA,
                   Score |-> NA, Enrollment |-> NA]]

\* one iteration of the while loop, with the cursor at j
ScanIteration(ls, j) ==
    IF IsNameLine(ls[j + 1])
    THEN CountryStep(ls, <<j, j + 1>>, Strip(ls[j + 1]))
    ELSE [path |-> "not_name",
          cur |-> <<j, j + 1>>,
          rank_state |-> "none",
          rec |-> [Rank |-> 0, University |-> NA, Country |-> NA,
                   Score |-> NA, Enrollment |-> NA]]

\* the eight lines of the documented entry
HarvardEntry ==
    <<<<"H","a","r","v","a","r","d"," ","U","n","i","v","e","r","s","i","t","y">>, <<"M","a","s","s","a","c","h","u","s","e","t","t","s"," ","|"," ","U","n","i","t","e","d"," ","S","t","a","t","e","s">>, <<"#","1">>,
      <<"i","n"," ","B","e","s","t"," ","G","l","o","b","a","l"," ","U","n","i","v","e","r","s","i","t","i","e","s">>, <<"G","l","o","b","a","l"," ","S","c","o","r","e">>, <<"9","9",".","1">>,
      <<"E","n","r","o","l","l","m","e","n","t">>, <<"2","1",",","0","0","0">>>>

\* free-form texts are built from these lines
ScanLinePool ==
    {<<"H","a","r","v","a","r","d"," ","U","n","i","v","e","r","s","i","t","y">>, <<"M","a","s","s","a","c","h","u","s","e","t","t","s"," ","|"," ","U","n","i","t","e","d"," ","S","t","a","t","e","s">>, <<"#","1">>,
     <<"#","0">>, <<"#","x">>, <<"G","l","o","b","a","l"," ","S","c","o","r","e">>, <<"9","9",".","1">>, <<"E","n","r","o","l","l","m","e","n","t">>}

\* an entry is a name line followed by the optional fields, each present,
\* absent or malformed
NameSlot ==
    {<<<<"H","a","r","v","a","r","d"," ","U","n","i","v","e","r","s","i","t","y">>>>, <<<<"N","/","A">>>>, <<<<"M","I","T">>>>,
     <<<<" "," ","U","n","i","v","e","r","s","i","t","y"," ","o","f"," ","T","o","k","y","o"," ">>>>}

CountrySlot ==
    {<< >>, <<<<"M","a","s","s","a","c","h","u","s","e","t","t","s"," ","|"," ","U","n","i","t","e","d"," ","S","t","a","t","e","s">>>>, <<<<"|"," ","J","a","p","a","n">>>>}

RankSlot ==
    {<< >>, <<<<"#","1">>>>, <<<<"#","2"," ","(","t","i","e",")">>>>, <<<<"#","0">>>>, <<<<"#"," ","5">>>>,
     <<<<"#","1","2","t","h"," ","(","t","i","e",")"," ","i","n"," ","A","s","i","a">>>>}

BestGlobalSlot == {<< >>, <<<<"i","n"," ","B","e","s","t"," ","G","l","o","b","a","l"," ","U","n","i","v","e","r","s","i","t","i","e","s">>>>}

ScoreSlot ==
    {<< >>, <<<<"G","l","o","b","a","l"," ","S","c","o","r","e">>>>, <<<<"G","l","o","b","a","l"," ","S","c","o","r","e">>, <<"9","9",".","1">>>>,
     <<<<"G","l","o","b","a","l"," ","S","c","o","r","e">>, <<"2","1",",","0","0","0">>>>, <<<<"9","9",".","1">>>>}

EnrollmentSlot ==
    {<< >>, <<<<"E","n","r","o","l","l","m","e","n","t">>>>, <<<<"E","n","r","o","l","l","m","e","n","t">>, <<"2","1",",","0","0","0">>>>,
     <<<<"E","n","r","o","l","l","m","e","n","t">>, <<"1",",","2","3","4",",","5","6","7">>, << >>>>}

EntryTexts ==
    {n \o c \o r \o b \o s \o e :
        n \in NameSlot, c \in CountrySlot, r \in RankSlot,
        b \in BestGlobalSlot, s \in ScoreSlot, e \in EnrollmentSlot}

\* the texts given to the scan, as their '\n'-separated pieces
ScanTexts == SeqsUpTo(ScanLinePool, MaxLines) \cup EntryTexts

ScanInit ==
    /\ \E text \in ScanTexts : lines = StrippedLines(text)
    /\ max_rank \in 1..MaxRankParam
    /\ i = 0
    /\ parsed = << >>
    /\ rank_count = 0
    /\ scan_log = << >>
    /\ csv_written = FALSE
    /\ s_pc = "loop"

\* the start of the scan on the shorter free-form texts
ScanLiveInit ==
    /\ \E text \in SeqsUpTo(ScanLinePool, MaxLiveLines) :
          lines = StrippedLines(text)
    /\ max_rank \in 1..MaxRankParam
    /\ i = 0
    /\ parsed = << >>
    /\ rank_count = 0
    /\ scan_log = << >>
    /\ csv_written = FALSE
    /\ s_pc = "loop"

\* one iteration of the while loop; scan_log records what it did
ScanStep ==
    /\ s_pc = "loop"
    /\ i < Len(lines)
    /\ rank_count < max_rank
    /\ \E it \in {ScanIteration(lines, i)} :
          /\ i' = Cursor(it.cur)
          /\ parsed' = IF it.path = "emitted" THEN Append(parsed, it.rec)
                       ELSE parsed
          /\ rank_count' = IF it.path = "emitted" THEN rank_count + 1
                           ELSE rank_count
          /\ scan_log' = Append(scan_log, it)
    /\ UNCHANGED <<lines, max_rank, csv_written, s_pc>>

\* the loop ends; without records the function returns before saving
ScanExit ==
    /\ s_pc = "loop"
    /\ ~(i < Len(lines) /\ rank_count < max_rank)
    /\ csv_written' = (parsed # << >>)
    /\ s_pc' = "done"
    /\ UNCHANGED <<lines, max_rank, i, parsed, rank_count, scan_log>>

-----------------------------------------------------------------------------
(* Specifications: one per component, the other components stay idle *)

ValidatorIdle == v_in = << >> /\ v_out = << >> /\ v_pc = "idle"

LinksIdle == l_links = << >> /\ l_out = << >> /\ l_pc = "idle"

ChainIdle ==
    /\ page = << >>
    /\ max_entries = 1
    /\ strat_idx = 1
    /\ universities = << >>
    /\ ran = << >>
    /\ retained_from = 0
    /\ validated = FALSE
    /\ returned = << >>
    /\ c_pc = "idle"

ScanIdle ==
    /\ lines = << >>
    /\ max_rank = 1
    /\ i = 0
    /\ parsed = << >>
    /\ rank_count = 0
    /\ scan_log = << >>
    /\ csv_written = FALSE
    /\ s_pc = "idle"

CanonIdle == loc_in = << >> /\ loc_out = << >> /\ loc_pc = "idle"

WorkflowIdle ==
    /\ w_page = << >>
    /\ w_target = 1
    /\ w_loaded = 0
    /\ w_universities = << >>
    /\ w_log = << >>
    /\ w_result = "pending"
    /\ w_pc = "idle"

LoadIdle ==
    /\ ld_target = 1
    /\ ld_wait = 0
    /\ ld_elapsed = 0
    /\ ld_last = 0
    /\ ld_same = 0
    /\ ld_current = 0
    /\ ld_exit = "none"
    /\ ld_returned = 0
    /\ ld_prev = 0
    /\ ld_run = 0
    /\ ld_pc = "idle"

InitValidator == ValidatorInit /\ LinksIdle /\ ChainIdle /\ ScanIdle /\ CanonIdle
    /\ WorkflowIdle /\ LoadIdle

NextValidator == Clean /\ UNCHANGED <<linkVars, chainVars, scanVars, canonVars, workflowVars, loadVars>>

\* _clean_and_standardize_data on every candidate list
SpecValidator == InitValidator /\ [][NextValidator]_vars

InitLinks == ValidatorIdle /\ LinksInit /\ ChainIdle /\ ScanIdle /\ CanonIdle
    /\ WorkflowIdle /\ LoadIdle

NextLinks ==
    RunLinkStrategy /\ UNCHANGED <<validatorVars, chainVars, scanVars, canonVars,
                                workflowVars, loadVars>>

\* _extract_via_university_links on every page of anchors
SpecLinks == InitLinks /\ [][NextLinks]_vars

InitChain == ValidatorIdle /\ LinksIdle /\ ChainInit /\ ScanIdle /\ CanonIdle
    /\ WorkflowIdle /\ LoadIdle

NextChain ==
    \/ RunStrategy /\ UNCHANGED <<validatorVars, linkVars, scanVars, canonVars, workflowVars, loadVars>>
    \/ FinishExtraction /\ UNCHANGED <<validatorVars, linkVars, scanVars, canonVars, workflowVars, loadVars>>

\* extract_university_data on every page
SpecChain == InitChain /\ [][NextChain]_vars

InitCanon == ValidatorIdle /\ LinksIdle /\ ChainIdle /\ ScanIdle /\ CanonInit
    /\ WorkflowIdle /\ LoadIdle

NextCanon ==
    \/ CanonicalizeInput /\ UNCHANGED <<validatorVars, linkVars, chainVars, scanVars, workflowVars, loadVars>>
    \/ CanonicalizeOutput /\ UNCHANGED <<validatorVars, linkVars, chainVars, scanVars, workflowVars, loadVars>>

\* canonicalize on every location text, then on its own result
SpecCanon == InitCanon /\ [][NextCanon]_vars

InitScan == ValidatorIdle /\ LinksIdle /\ ChainIdle /\ ScanInit /\ CanonIdle
    /\ WorkflowIdle /\ LoadIdle

NextScan ==
    \/ ScanStep /\ UNCHANGED <<validatorVars, linkVars, chainVars, canonVars, workflowVars, loadVars>>
    \/ ScanExit /\ UNCHANGED <<validatorVars, linkVars, chainVars, canonVars, workflowVars, loadVars>>

\* parse_usnews_text on every text
SpecScan == InitScan /\ [][NextScan]_vars

InitScanLive ==
    /\ ValidatorIdle /\ LinksIdle /\ ChainIdle /\ ScanLiveInit /\ CanonIdle
    /\ WorkflowIdle /\ LoadIdle

\* parse_usnews_text, the interpreter always taking the next step of the loop
SpecScanLive == InitScanLive /\ [][NextScan]_vars /\ WF_vars(NextScan)

InitWorkflow ==
    /\ ValidatorIdle /\ LinksIdle /\ ChainIdle /\ ScanIdle /\ CanonIdle
    /\ WorkflowInit /\ LoadIdle

NextWorkflow ==
    \/ LoadPage /\ UNCHANGED <<validatorVars, linkVars, chainVars, scanVars, canonVars, loadVars>>
    \/ ExtractData /\ UNCHANGED <<validatorVars, linkVars, chainVars, scanVars, canonVars, loadVars>>
    \/ SaveData /\ UNCHANGED <<validatorVars, linkVars, chainVars, scanVars, canonVars, loadVars>>

\* extract_rankings on every page
SpecWorkflow == InitWorkflow /\ [][NextWorkflow]_vars

InitLoad ==
    /\ ValidatorIdle /\ LinksIdle /\ ChainIdle /\ ScanIdle /\ CanonIdle
    /\ WorkflowIdle /\ LoadInit

NextLoad ==
    \/ LoadIteration /\ UNCHANGED <<validatorVars, linkVars, chainVars, scanVars, canonVars, workflowVars>>
    \/ LoadTimeout /\ UNCHANGED <<validatorVars, linkVars, chainVars, scanVars, canonVars, workflowVars>>

\* _scroll_and_load_content on every sequence of observed counts; the clock
\* advances and the interpreter always takes the next step of the loop
SpecLoad == InitLoad /\ [][NextLoad]_vars /\ WF_vars(NextLoad)

-----------------------------------------------------------------------------
(* Claims about the validator *)

ValidInputName(n) == ~NameInvalid(Strip(n), {})

\* C1: every record the validator returns has a rank in 1..MaxRankAccepted,
\* and no two returned records have the same rank.
C1_RanksInRangeAndDistinct ==
    v_pc = "done" =>
        /\ \A k \in 1..Len(v_out) : v_out[k].Rank \in 1..MaxRankAccepted
        /\ \A j, k \in 1..Len(v_out) : j # k => v_out[j].Rank # v_out[k].Rank

\* an input with an over-limit rank, an unparsable rank and two valid
\* candidates of the same rank, of which one record comes out
C1_Witness ==
    /\ v_pc = "done"
    /\ \E k \in 1..Len(v_in) :
          /\ ValidInputName(v_in[k].University)
          /\ v_in[k].Rank.ok
          /\ v_in[k].Rank.val > MaxRankAccepted
    /\ \E j, k \in 1..Len(v_in) :
          /\ j < k
          /\ v_in[j].Rank = v_in[k].Rank
          /\ v_in[j].Rank.ok
          /\ v_in[j].Rank.val = MaxRankAccepted
          /\ ValidInputName(v_in[j].University)
          /\ ValidInputName(v_in[k].University)
          /\ Strip(v_in[j].University) # Strip(v_in[k].University)
    /\ Len(v_out) = 1
    /\ v_out[1].Rank = MaxRankAccepted

\* C2: the validator's output has no two records with the same name, and every
\* output name is trimmed, non-empty, at least 3 long and not reserved.
C2_NamesDistinctAndValid ==
    v_pc = "done" =>
        /\ \A j, k \in 1..Len(v_out) :
              j # k => v_out[j].University # v_out[k].University
        /\ \A k \in 1..Len(v_out) :
              LET name == v_out[k].University
              IN  /\ name # << >>
                  /\ name = Strip(name)
                  /\ Len(name) >= 3
                  /\ Lower(name) \notin ReservedNames

\* the same name twice with different valid ranks, and a reserved name:
\* one record of that name comes out
C2_Witness ==
    /\ v_pc = "done"
    /\ \E j, k \in 1..Len(v_in) :
          /\ j < k
          /\ ValidInputName(v_in[j].University)
          /\ Strip(v_in[j].University) = Strip(v_in[k].University)
          /\ v_in[j].University # v_in[k].University
          /\ v_in[j].Rank = IntRank(3)
          /\ v_in[k].Rank = IntRank(5)
    /\ \E k \in 1..Len(v_in) : Lower(Strip(v_in[k].University)) \in ReservedNames
    /\ Len(v_out) = 1

\* the precedence scenario: (5, A), (5, B), (3, A), A and B distinct valid names
IsPrecedenceScenario ==
    /\ Len(v_in) = 3
    /\ v_in[1].Rank = IntRank(5)
    /\ v_in[2].Rank = IntRank(5)
    /\ v_in[3].Rank = IntRank(3)
    /\ v_in[1].University = v_in[3].University
    /\ ValidInputName(v_in[1].University)
    /\ ValidInputName(v_in[2].University)
    /\ Strip(v_in[1].University) # Strip(v_in[2].University)

\* C3 as stated: on (5, A), (5, B), (3, A) the validator returns exactly (3, A).
C3_ScenarioReturnsRank3 ==
    (v_pc = "done" /\ IsPrecedenceScenario) =>
        /\ Len(v_out) = 1
        /\ v_out[1].Rank = 3
        /\ v_out[1].University = Strip(v_in[1].University)

\* C3 amended: on (5, A), (5, B), (3, A) the validator returns exactly (5, A):
\* (3, A) is dropped as a repeated name, then (5, B) as a repeated rank.
C3_ScenarioReturnsRank5 ==
    (v_pc = "done" /\ IsPrecedenceScenario) =>
        /\ Len(v_out) = 1
        /\ v_out[1].Rank = 5
        /\ v_out[1].University = Strip(v_in[1].University)

C3_Witness == v_pc = "done" /\ IsPrecedenceScenario /\ Len(v_out) = 1

-----------------------------------------------------------------------------
(* Claims about the strategy chain *)

\* the logged calls that returned a list
ReturnedRuns == {k \in 1..Len(ran) : ~ran[k].raised}

\* the largest candidate count over the calls that returned, 0 if none did
MaxCountRun ==
    IF ReturnedRuns = {} THEN 0
    ELSE LET best == CHOOSE k \in ReturnedRuns :
                        \A m \in ReturnedRuns : Len(ran[k].data) >= Len(ran[m].data)
         IN  Len(ran[best].data)

\* C4: the retained set is the result of the earliest-run strategy whose count
\* equals the maximum count over the strategies run so far (nothing when that
\* maximum is 0): a later result replaces it only when strictly larger, and the
\* retained set is one strategy's result, never a merge.
C4_RetainsEarliestLargest ==
    c_pc \in {"loop", "after_loop"} =>
        IF MaxCountRun = 0
        THEN universities = << >> /\ retained_from = 0
        ELSE LET first == Min({k \in ReturnedRuns : Len(ran[k].data) = MaxCountRun})
             IN  /\ universities = ran[first].data
                 /\ retained_from = ran[first].strategy

\* strategy 1 yields some candidates, strategy 2 ties with it and strategy 3
\* yields more: strategy 3's result is retained
C4_Witness ==
    /\ c_pc = "after_loop"
    /\ Len(ran) = NumStrategies
    /\ ReturnedRuns = 1..NumStrategies
    /\ Len(ran[1].data) >= 1
    /\ Len(ran[2].data) = Len(ran[1].data)
    /\ ran[2].data # ran[1].data
    /\ Len(ran[3].data) > Len(ran[1].data)
    /\ universities = ran[3].data
    /\ retained_from = 3

-----------------------------------------------------------------------------
(* Claims about the link-anchor strategy *)

\* the anchors with a readable, acceptable name and an ancestor container
AcceptedAnchors ==
    {k \in 1..Len(l_links) :
        /\ ~l_links[k].stale
        /\ Len(Strip(l_links[k].text)) >= 3
        /\ Lower(Strip(l_links[k].text)) \notin LinkReservedNames
        /\ l_links[k].has_parent}

\* the j-th accepted anchor, in page order
NthAccepted(j) ==
    CHOOSE k \in AcceptedAnchors :
        Cardinality({m \in AcceptedAnchors : m <= k}) = j

\* C10 as stated: the link strategy never emits two candidates with the same
\* name, and every candidate comes from an anchor whose container text holds a
\* '#<digits>' marker.
C10_NoDuplicateNoUnmarked ==
    l_pc = "done" =>
        /\ \A a, b \in 1..Len(l_out) :
              a # b => l_out[a].University # l_out[b].University
        /\ \A j \in 1..Len(l_out) :
              \E k \in 1..Len(l_links) :
                  /\ Strip(l_links[k].text) = l_out[j].University
                  /\ TextHasRankMarker(l_links[k].parent_text)
                  /\ l_out[j].Rank.val = TextFirstRankMarker(l_links[k].parent_text)

\* C10 amended: the link strategy emits, in page order, one candidate for every
\* anchor with a readable name of length >= 3 that is not reserved and with an
\* ancestor container, repeated names included; its rank is the first
\* '#<digits>' of the container text, and the position i + 1 when there is none.
C10_EmitsEveryAcceptedAnchor ==
    l_pc = "done" =>
        /\ Len(l_out) = Cardinality(AcceptedAnchors)
        /\ \A j \in 1..Len(l_out) :
              LET k == NthAccepted(j)
                  text == l_links[k].parent_text
              IN  /\ l_out[j].University = Strip(l_links[k].text)
                  /\ l_out[j].Rank.ok
                  /\ l_out[j].Rank.val =
                        IF \E m \in 1..Len(text) : HasRankMarker(text[m])
                        THEN TextFirstRankMarker(text)
                        ELSE k

\* two anchors of the same name are both emitted, and so is an anchor whose
\* container has no marker, with its position as rank
C10_Witness ==
    /\ l_pc = "done"
    /\ Len(l_out) = 3
    /\ Len(l_links) = 3
    /\ l_out[1].University = l_out[2].University
    /\ ~TextHasRankMarker(l_links[3].parent_text)
    /\ l_out[3].Rank.val = 3

-----------------------------------------------------------------------------
(* Claims about the sequential line scan *)

\* C6: on the eight lines of the documented entry the scan emits exactly one
\* record: rank 1, 'Harvard University', country 'Massachusetts' (the text
\* before the first pipe), score '99.1', enrollment '21000'.
C6_HarvardScenario ==
    (s_pc = "done" /\ lines = HarvardEntry) =>
        parsed = <<[Rank |-> 1,
                    University |-> <<"H","a","r","v","a","r","d"," ","U","n","i","v","e","r","s","i","t","y">>,
                    Country |-> <<"M","a","s","s","a","c","h","u","s","e","t","t","s">>,
                    Score |-> <<"9","9",".","1">>,
                    Enrollment |-> <<"2","1","0","0","0">>]>>

\* the scan has run over the eight lines to their end
C6_Witness ==
    /\ s_pc = "done"
    /\ lines = HarvardEntry
    /\ i = 8
    /\ Len(parsed) = 1
    /\ csv_written

\* the iterations that detected a name line
EntryIterations == {k \in 1..Len(scan_log) : scan_log[k].path # "not_name"}

\* the line at the rank position of an iteration, if any, starts with '#'
RankLinePresent(e) == e.cur[3] < Len(lines) /\ lines[e.cur[3] + 1][1] = "#"

\* ... and parses to an integer: digits follow the '#'
RankObtained(e) ==
    /\ RankLinePresent(e)
    /\ Len(lines[e.cur[3] + 1]) >= 2
    /\ IsDigit(lines[e.cur[3] + 1][2])

\* the integer those digits denote
MarkedRank(e) ==
    LET s == lines[e.cur[3] + 1]
        stop == Min({q \in 2..(Len(s) + 1) : q = Len(s) + 1 \/ ~IsDigit(s[q])})
    IN  DigitsToInt(SubSeq(s, 2, stop - 1))

\* C7 as stated: a record is emitted for a name line if and only if a rank was
\* obtained for it.
C7_EmittedIffRankObtained ==
    \A k \in EntryIterations :
        (scan_log[k].path = "emitted") <=> RankObtained(scan_log[k])

\* C7 amended: a record is emitted for a name line if and only if a rank was
\* obtained for it, the rank is not 0 and the name is not the text 'N/A';
\* otherwise the entry is dropped.  An unparsable rank line ends the iteration
\* right after that line.  Every iteration consumes at least the name line and
\* the next one starts after the lines consumed.
C7_EmittedIffRankNonZero ==
    /\ \A k \in EntryIterations :
          LET e == scan_log[k]
          IN  /\ (e.path = "emitted") <=>
                    /\ RankObtained(e)
                    /\ MarkedRank(e) # 0
                    /\ lines[e.cur[1] + 1] # NA
              /\ e.path = "emitted" =>
                    /\ e.rec.Rank = MarkedRank(e)
                    /\ e.rec.University = lines[e.cur[1] + 1]
              /\ (RankLinePresent(e) /\ ~RankObtained(e)) =>
                    /\ e.path = "invalid_rank"
                    /\ Cursor(e.cur) = e.cur[3] + 1
              /\ Cursor(e.cur) > e.cur[1]
              /\ k < Len(scan_log) => scan_log[k + 1].cur[1] = Cursor(e.cur)
    /\ Len(parsed) = Cardinality({k \in EntryIterations : scan_log[k].path = "emitted"})
    /\ \A k \in EntryIterations :
          scan_log[k].path = "emitted" => scan_log[k].rec \in Range(parsed)
    /\ i = IF scan_log = << >> THEN 0 ELSE Cursor(scan_log[Len(scan_log)].cur)

\* an entry with rank line '#0' is dropped, one with an unparsable rank line
\* is dropped, and the scan goes on to emit a later entry
C7_Witness ==
    \E j, k \in EntryIterations :
        /\ j < k
        /\ scan_log[j].path \in {"incomplete", "invalid_rank"}
        /\ RankLinePresent(scan_log[j])
        /\ (RankObtained(scan_log[j]) => MarkedRank(scan_log[j]) = 0)
        /\ scan_log[k].path = "emitted"

-----------------------------------------------------------------------------
(* Claims about the location canonicalizer *)

\* C8: 'Cambridge (U.K.)' resolves to 'United Kingdom', 'Tokyo' to 'Japan',
\* and 'Unknown Town' to the cleaned fallback 'Unknown Town'.
C8_AliasExamples ==
    loc_pc # "start" =>
        /\ (loc_in = <<"C","a","m","b","r","i","d","g","e"," ","(","U",".","K",".",")">> => loc_out[1] = <<"U","n","i","t","e","d"," ","K","i","n","g","d","o","m">>)
        /\ (loc_in = <<"T","o","k","y","o">> => loc_out[1] = <<"J","a","p","a","n">>)
        /\ (loc_in = <<"U","n","k","n","o","w","n"," ","T","o","w","n">> => loc_out[1] = <<"U","n","k","n","o","w","n"," ","T","o","w","n">>)

\* C9: applying canonicalize to any value it returned returns that value.
C9_Idempotent == loc_pc = "twice" => loc_out[2] = loc_out[1]

-----------------------------------------------------------------------------
(* Claims about the complete workflow *)

\* EmptyResult: the page held entries, nothing raised, and no strategy
\* extracted a candidate
IsEmptyResult ==
    /\ w_pc = "done"
    /\ w_loaded > 0
    /\ w_log = <<"F","a","i","l","e","d"," ","t","o"," ","e","x","t","r","a","c","t"," ","u","n","i","v","e","r","s","i","t","y"," ","d","a","t","a">>

\* C11: a source without data makes the workflow fail with a value that an
\* empty result (a source with entries from which no strategy extracts a
\* candidate) never produces.
C11_NoSourceDistinctFromEmptyResult ==
    /\ (w_pc = "done" /\ w_loaded = 0) => w_result = NoSourceDataResult
    /\ IsEmptyResult =>
          /\ w_universities = << >>
          /\ w_result # NoSourceDataResult

-----------------------------------------------------------------------------
(* Further claims about the strategy chain *)

\* the validator's result on the list the chain retained
CleanedRetained ==
    LET k == CHOOSE n \in 1..Len(ran) : ran[n].strategy = retained_from
    IN  CleanAndStandardize(ran[k].data)

\* C12: the sequence extract_university_data returns has at most max_entries
\* records, and it is the first max_entries records, in rank order, of the
\* sorted and deduplicated sequence.
C12_ReturnedWithinCap ==
    (c_pc = "done" /\ validated) =>
        /\ Len(returned) <= max_entries
        /\ returned = SubSeq(CleanedRetained, 1,
                             Min({max_entries, Len(CleanedRetained)}))

-----------------------------------------------------------------------------
(* Further claims about the validator *)

\* the input candidates that survive name validation, name dedup and rank
\* validation: a valid name not carried by an earlier candidate, and an
\* integer rank in 1..MaxRankAccepted
Survivors ==
    {k \in 1..Len(v_in) :
        /\ ValidInputName(v_in[k].University)
        /\ \A j \in 1..(k - 1) :
              Strip(v_in[j].University) # Strip(v_in[k].University)
        /\ v_in[k].Rank.ok
        /\ v_in[k].Rank.val \in 1..MaxRankAccepted}

SurvivorRanks == {v_in[k].Rank.val : k \in Survivors}

\* the earliest survivor of rank r
FirstSurvivor(r) == Min({k \in Survivors : v_in[k].Rank.val = r})

\* C13: the validator's output is in strictly ascending rank order, and for
\* every rank held by surviving records the record kept is the one that came
\* earliest in the input; every other record of that rank is dropped.
C13_AscendingFirstPerRank ==
    v_pc = "done" =>
        /\ \A j, k \in 1..Len(v_out) : j < k => v_out[j].Rank < v_out[k].Rank
        /\ {v_out[k].Rank : k \in 1..Len(v_out)} = SurvivorRanks
        /\ \A k \in 1..Len(v_out) :
              LET first == v_in[FirstSurvivor(v_out[k].Rank)]
              IN  /\ v_out[k].University = Strip(first.University)
                  /\ v_out[k].Country = StandardCountry(first.Country)

\* two surviving records of rank 5 with different names surround a record
\* of rank 3: the input is out of rank order, and the earlier of the two is kept
C13_Witness ==
    /\ v_pc = "done"
    /\ Len(v_in) = 3
    /\ Survivors = {1, 2, 3}
    /\ v_in[1].Rank.val = 5
    /\ v_in[2].Rank.val = 3
    /\ v_in[3].Rank.val = 5
    /\ Len(v_out) = 2
    /\ v_out[2].University = Strip(v_in[1].University)

-----------------------------------------------------------------------------
(* Further claims about the sequential line scan *)

\* C14: every record the line scan emits has a rank in 1..max_rank.
C14_RankWithinMaxRank ==
    \A k \in 1..Len(parsed) : parsed[k].Rank \in 1..max_rank

\* the first input candidate carrying the trimmed name n
FirstOfName(n) == Min({j \in 1..Len(v_in) : Strip(v_in[j].University) = n})

\* C15: every record in the validator's output comes from the first input
\* candidate carrying that trimmed name; a later candidate of the same name is
\* never output, even when the first one was dropped for its rank or lost the
\* rank dedup.
C15_FirstOccurrenceOfNameWins ==
    v_pc = "done" =>
        \A k \in 1..Len(v_out) :
            LET first == v_in[FirstOfName(v_out[k].University)]
            IN  /\ first.Rank.ok
                /\ first.Rank.val = v_out[k].Rank
                /\ StandardCountry(first.Country) = v_out[k].Country

\* the first candidate of a name has a rejected rank, a later one of the same
\* name a valid rank: the name is not output, while another name is
C15_Witness ==
    /\ v_pc = "done"
    /\ Len(v_in) = 3
    /\ ValidInputName(v_in[1].University)
    /\ (v_in[1].Rank.ok => v_in[1].Rank.val > MaxRankAccepted)
    /\ Strip(v_in[2].University) = Strip(v_in[1].University)
    /\ v_in[2].Rank = IntRank(3)
    /\ ValidInputName(v_in[3].University)
    /\ v_in[3].Rank = IntRank(3)
    /\ Len(v_out) = 1
    /\ v_out[1].University = Strip(v_in[3].University)
    /\ v_out[1].University # Strip(v_in[1].University)

-----------------------------------------------------------------------------
(* Further claims about the location canonicalizer *)

\* the substrings that stand for the United States
UnitedStatesSubstrings == {<<"u",".","s",".">>, <<"u","s","a">>, <<"a","m","e","r","i","c","a">>, <<"s","t","a","t","e","s">>}

\* the normalised text has no exact match in the alias map and contains one
\* of the substrings
ResolvedBySubstring(location_text) ==
    /\ \A k \in 1..Len(CountryMapping) :
          CountryMapping[k][1] # LocationLower(location_text)
    /\ \E p \in UnitedStatesSubstrings :
          Contains(LocationLower(location_text), p)

\* C16: a location text without an exact alias that contains 'u.s.', 'usa',
\* 'america' or 'states' resolves to exactly 'United States', a value of the
\* alias table.
C16_SubstringGivesUnitedStates ==
    (loc_pc # "start" /\ ResolvedBySubstring(loc_in)) =>
        /\ loc_out[1] = <<"U","n","i","t","e","d"," ","S","t","a","t","e","s">>
        /\ \E k \in 1..Len(CountryMapping) : CountryMapping[k][2] = loc_out[1]

\* the iterations that went through the score and enrollment steps
FullIterations ==
    {k \in 1..Len(scan_log) : scan_log[k].path \in {"emitted", "incomplete"}}

\* the line at 0-based position j, when there is one
HasLine(j) == j < Len(lines)

LineAt(j) == lines[j + 1]

\* digits '.' digits, nothing else
FullDecimal(s) ==
    \E p \in 2..(Len(s) - 1) :
        /\ s[p] = "."
        /\ \A q \in 1..Len(s) : q # p => IsDigit(s[q])

\* s without its commas
WithoutCommas(s) == SelectSeq(s, LAMBDA c : c # ",")

\* C17: the score of an entry is the line after the score label when the line
\* at the score-label position is exactly 'Global Score' and the next line is
\* a full decimal, and 'N/A' otherwise; the enrollment is the line after the
\* enrollment label without its commas when the line at the enrollment-label
\* position is exactly 'Enrollment' and a further line exists, and 'N/A'
\* otherwise.  'Global Score' before a non-decimal line is consumed, the line
\* after it is not, and the score stays 'N/A'.
C17_ScoreAndEnrollment ==
    \A k \in FullIterations :
        LET e == scan_log[k]
            sl == e.cur[5]
            el == e.cur[7]
            scoreLabel == HasLine(sl) /\ LineAt(sl) = <<"G","l","o","b","a","l"," ","S","c","o","r","e">>
            scoreValue == scoreLabel /\ HasLine(sl + 1) /\ FullDecimal(LineAt(sl + 1))
            enrLabel == HasLine(el) /\ LineAt(el) = <<"E","n","r","o","l","l","m","e","n","t">>
            enrValue == enrLabel /\ HasLine(el + 1)
        IN  /\ e.rec.Score = IF scoreValue THEN LineAt(sl + 1) ELSE NA
            /\ e.rec.Enrollment = IF enrValue THEN WithoutCommas(LineAt(el + 1))
                                  ELSE NA
            /\ e.cur[6] = IF scoreLabel THEN sl + 1 ELSE sl
            /\ e.cur[7] = IF scoreValue THEN sl + 2 ELSE e.cur[6]
            /\ e.cur[8] = IF enrLabel THEN el + 1 ELSE el
            /\ e.cur[9] = IF enrValue THEN el + 2 ELSE e.cur[8]
            /\ e.path = "emitted" => e.rec \in Range(parsed)

\* an emitted entry whose 'Global Score' label stands before a non-decimal
\* line: the label is consumed, the line is left, the score is 'N/A'
C17_Witness ==
    \E k \in FullIterations :
        LET e == scan_log[k]
        IN  /\ e.path = "emitted"
            /\ HasLine(e.cur[5]) /\ LineAt(e.cur[5]) = <<"G","l","o","b","a","l"," ","S","c","o","r","e">>
            /\ HasLine(e.cur[5] + 1) /\ ~FullDecimal(LineAt(e.cur[5] + 1))
            /\ e.cur[7] = e.cur[5] + 1
            /\ e.rec.Score = NA

\* the scan loop has ended for one of its two reasons
ScanEnded == s_pc = "done" /\ (i = Len(lines) \/ rank_count = max_rank)

\* C18: the line scan terminates: the cursor never moves backwards, every
\* step of an iteration consumes zero or one line, every iteration advances
\* the cursor by at least one line, and the loop ends with the cursor at the
\* end of the lines or with max_rank records emitted.
C18_ScanTerminates ==
    /\ [][i' >= i /\ (scan_log' # scan_log => i' > i)]_vars
    /\ [](\A k \in 1..Len(scan_log) :
             \A n \in 1..(Len(scan_log[k].cur) - 1) :
                 scan_log[k].cur[n + 1] - scan_log[k].cur[n] \in {0, 1})
    /\ [](i <= Len(lines))
    /\ <>ScanEnded

\* a finished scan that went through an entry with an unparsable rank line
\* and an entry without a rank, up to the end of the lines
C18_Witness ==
    /\ ScanEnded
    /\ i = Len(lines)
    /\ {"invalid_rank", "incomplete"} \subseteq
          {scan_log[k].path : k \in 1..Len(scan_log)}

-----------------------------------------------------------------------------
(* Claims about failing strategies *)

\* the step just taken is a strategy call that raised
StrategyRaised == Len(ran') = Len(ran) + 1 /\ ran'[Len(ran')].raised

\* C19: a strategy that raises leaves the retained set as it was and the loop
\* goes on to the next strategy; when every strategy raised or yielded
\* nothing, all of them were run and extract_university_data returns an empty
\* list without calling the validator.
C19_RaiseContributesNothing ==
    /\ [][StrategyRaised =>
            /\ universities' = universities
            /\ retained_from' = retained_from
            /\ strat_idx' = strat_idx + 1
            /\ c_pc' = IF strat_idx < NumStrategies THEN "loop"
                       ELSE "after_loop"]_vars
    /\ []((/\ c_pc = "done"
           /\ \A k \in 1..Len(ran) : ran[k].raised \/ ran[k].data = << >>)
          => /\ Len(ran) = NumStrategies
             /\ returned = << >>
             /\ ~validated)

\* strategy 1 yields candidates, strategy 2 raises, strategy 3 is still run
\* and strategy 1's candidates are still the retained set
C19_Witness ==
    /\ c_pc = "after_loop"
    /\ Len(ran) = NumStrategies
    /\ ~ran[1].raised /\ ran[1].data # << >>
    /\ ran[2].raised
    /\ ran[2].retained = Len(ran[1].data)
    /\ universities = ran[1].data
    /\ retained_from = 1

-----------------------------------------------------------------------------
(* Claims about the load loop *)

\* C20: the load loop always stops.  It ends in the iteration whose count is
\* >= max_entries, or in the iteration that is the 5th in a row to see the
\* count of the iteration before it (0 before the first), or when the elapsed
\* time has reached max_wait_time; an iteration that goes on has a count below
\* max_entries.  The counter of unchanged counts is the length of the current
\* run of such iterations, so it is 0 after every iteration whose count
\* changed, and no 6th iteration in a row sees an unchanged count.
C20_LoadLoopStops ==
    /\ [](ld_run <= SameCountLimit)
    /\ []((ld_pc = "loop" \/ ld_exit = "stalled") => ld_same = ld_run)
    /\ []((ld_pc = "loop" /\ ld_elapsed > 0) =>
             /\ ~TargetLoaded(ld_current, ld_target)
             /\ ld_run < SameCountLimit)
    /\ [](ld_pc = "done" =>
             \/ ld_exit = "target" /\ ld_current >= ld_target
             \/ /\ ld_exit = "stalled"
                /\ ld_current < ld_target
                /\ ld_run = SameCountLimit
             \/ ld_exit = "timeout" /\ ld_elapsed >= ld_wait)
    /\ <>(ld_pc = "done")

\* the loop stopped on the 5th unchanged count in a row, after the counter
\* had been reset by a changed count
C20_Witness ==
    /\ ld_pc = "done"
    /\ ld_exit = "stalled"
    /\ ld_current > 0
    /\ ld_run = SameCountLimit
    /\ ld_elapsed > SameCountLimit

====
